---- MODULE Spec2Model ----
EXTENDS Integers, Sequences, FiniteSets, TLC

\* A model of the Hex interpreter: the VM (stack, continuation frames, the
\* escape/quotation state), its Change records, the Hermes and Thoth frames,
\* the run loop, and the shorthand compiler Iota.patterns.

VARIABLES vm, accs, acts, iotas, prog, fed, pc, last, quote, call, hist

vars ==
  <<vm, accs, acts, iotas, prog, fed, pc, last, quote, call, hist>>

\* ---------------------------------------------------------------- bounds

\* external iotas one free-input call of run may carry
MaxIotas == 5
\* length of the data list of a compiled Thoth program
MaxData == 3
\* length of the list literal of a compiled quotation program
MaxQuote == 3
\* external iotas of a given program
MaxGiven == 3
\* frames of a VM that apply is called on by itself
MaxFrames == 3
\* values of a List that equals is called on
MaxValues == 2
\* angles of a HexPattern, characters of the angle field of a pattern string
MaxAngles == 3

\* ---------------------------------------------------------------- iotas

Min(a, b) == IF a < b THEN a ELSE b
Max(a, b) == IF a > b THEN a ELSE b

Null == [t |-> "Null"]
Double(v) == [t |-> "Double", v |-> v]
List(vs) == [t |-> "List", vs |-> vs]
Entity(name) == [t |-> "Entity", name |-> name]
Pattern(name, arg) == [t |-> "Pattern", name |-> name, arg |-> arg]
Boolean(value) == [t |-> "Boolean", value |-> value]
Vector3(x, y, z) == [t |-> "Vector3", x |-> x, y |-> y, z |-> z]
\* a Continuation iota holds the frames it captured
Continuation(cont) == [t |-> "Continuation", cont |-> cont]

INTROSPECTION == Pattern("Introspection", 0)
RETROSPECTION == Pattern("Retrospection", 0)
CONSIDERATION == Pattern("Consideration", 0)
VACANT_REFL == Pattern("Vacant Reflection", 0)
SINGLES_PURIF == Pattern("Single's Purification", 0)
MINDS_REFL == Pattern("Mind's Reflection", 0)
HERMES_GAMBIT == Pattern("Hermes' Gambit", 0)
THOTHS_GAMBIT == Pattern("Thoth's Gambit", 0)
NUMERICAL_REFL(v) == Pattern("Numerical Reflection", v)
NULLARY_REFL == Pattern("Nullary Reflection", 0)
TRUE_REFL == Pattern("True Reflection", 0)
FALSE_REFL == Pattern("False Reflection", 0)
CIRCLES_REFL == Pattern("Circle's Reflection", 0)
ARCS_REFL == Pattern("Arc's Reflection", 0)
EULERS_REFL == Pattern("Euler's Reflection", 0)
VECTOR_EXAL == Pattern("Vector Exaltation", 0)
VECTOR_REFL_ZERO == Pattern("Vector Reflection Zero", 0)
VECTOR_REFL_X == Pattern("Vector Reflection +X", 0)
VECTOR_REFL_Y == Pattern("Vector Reflection +Y", 0)
VECTOR_REFL_Z == Pattern("Vector Reflection +Z", 0)
VECTOR_REFL_NEG_X == Pattern("Vector Reflection -X", 0)
VECTOR_REFL_NEG_Y == Pattern("Vector Reflection -Y", 0)
VECTOR_REFL_NEG_Z == Pattern("Vector Reflection -Z", 0)

\* Numbers are integers, but for the three constants Iota.patterns compares
\* with: Math.PI * 2, Math.PI and Math.E, written here in thousandths, which
\* no other number of the model equals.
MathPI2 == 6283
MathPI == 3142
MathE == 2718

\* Vector3.equals on Vector3s: the distance is below Double.TOLERANCE, which
\* for the numbers above is to say that it is 0
Vector3Equals(a, b) ==
  LET dx == b.x - a.x
      dy == b.y - a.y
      dz == b.z - a.z
  IN dx * dx + dy * dy + dz * dz = 0

\* Pattern.mustEscape: set for the three escape-control patterns only
MustEscape(iota) ==
  iota.name \in {"Introspection", "Retrospection", "Consideration"}

\* Iota.execute is optional: of the iotas modelled here Pattern and
\* Continuation have it
HasExecute(iota) == iota.t \in {"Pattern", "Continuation"}

\* Iota.type(): the IotaType tag, compared by identity
TypeOf(iota) == iota.t

\* Environment.caster()
Caster == Entity("Astavie")

\* ---------------------------------------------------------------- frames

HermesFrame(patterns, capturesBrk) ==
  [t |-> "Hermes", patterns |-> patterns, capturesBrk |-> capturesBrk]

\* baseStack is null (hasBase = FALSE) or a stack; acc is a reference to a
\* mutable array, held here as an index into the heap accs
ThothFrame(data, code, hasBase, baseStack, acc) ==
  [t |-> "Thoth", data |-> data, code |-> code, hasBase |-> hasBase,
   baseStack |-> baseStack, acc |-> acc]

\* ---------------------------------------------------------------- Change

\* A Change with no field set. Optional fields that hold a value carry a
\* has-flag; stackPop and framePop are 0 when absent (both are falsy).
NoChange ==
  [escapeConsider |-> FALSE, escapeRetro |-> FALSE,
   hasEscapePush |-> FALSE, escapePush |-> Null, escapeIntro |-> FALSE,
   hasStackSet |-> FALSE, stackSet |-> <<>>, stackPop |-> 0,
   hasStackMove |-> FALSE, moveFrom |-> 0, moveTo |-> 0,
   hasStackPush |-> FALSE, stackPush |-> <<>>,
   hasFrameSet |-> FALSE, frameSet |-> <<>>, framePop |-> 0,
   hasFramePush |-> FALSE, framePush |-> <<>>]

\* Array.prototype.toSpliced(start, deleteCount, ...items), 0-based start
ToSpliced(s, start, deleteCount, items) ==
  LET len == Len(s)
      from == IF start < 0 THEN Max(len + start, 0) ELSE Min(start, len)
      dc == Min(Max(deleteCount, 0), len - from)
  IN SubSeq(s, 1, from) \o items \o SubSeq(s, from + dc + 1, len)

\* ---------------------------------------------------------------- VM

VM(stack, frames, parenCount, parenthesized, escapeNext) ==
  [stack |-> stack, frames |-> frames, parenCount |-> parenCount,
   parenthesized |-> parenthesized, escapeNext |-> escapeNext]

START == VM(<<>>, <<>>, 0, <<>>, FALSE)

ParenthesizedIota(iota, escaped) == [iota |-> iota, escaped |-> escaped]

\* mutant: escapeIntro and escapeRetro taken for each other
ApplyParenCountSwapped(parenCount, change) ==
  parenCount - (IF change.escapeIntro THEN 1 ELSE 0)
             + (IF change.escapeRetro THEN 1 ELSE 0)

\* VM.apply, the escape fields of one change
ApplyParenCount(parenCount, change) ==
  parenCount + (IF change.escapeIntro THEN 1 ELSE 0)
             - (IF change.escapeRetro THEN 1 ELSE 0)

\* mutant: parenthesized is not cleared when parenCount reaches 0
ApplyParenthesizedKept(parenthesized, parenCount, escapeNext, change) ==
  IF change.hasEscapePush
  THEN Append(parenthesized,
              ParenthesizedIota(change.escapePush, escapeNext))
  ELSE parenthesized

\* mutant: escapePush puts the iota in front, as the earlier VM did
ApplyParenthesizedFront(parenthesized, parenCount, escapeNext, change) ==
  LET cleared == IF parenCount = 0 THEN <<>> ELSE parenthesized
  IN IF change.hasEscapePush
     THEN <<ParenthesizedIota(change.escapePush, escapeNext)>> \o cleared
     ELSE cleared

ApplyParenthesized(parenthesized, parenCount, escapeNext, change) ==
  LET cleared == IF parenCount = 0 THEN <<>> ELSE parenthesized
  IN IF change.hasEscapePush
     THEN Append(cleared, ParenthesizedIota(change.escapePush, escapeNext))
     ELSE cleared

\* mutant: escapePush does not clear escapeNext
ApplyEscapeNextSticky(escapeNext, change) ==
  IF change.escapeConsider THEN TRUE ELSE escapeNext

\* mutant: escapeConsider is not taken
ApplyEscapeNextDropped(escapeNext, change) == FALSE

ApplyEscapeNext(escapeNext, change) ==
  IF change.escapeConsider THEN TRUE
  ELSE escapeNext /\ ~change.hasEscapePush

\* VM.apply, the stack fields of one change
ApplyStackSet(stack, change) ==
  IF change.hasStackSet THEN change.stackSet ELSE stack

ApplyStackPop(stack, change) ==
  IF change.stackPop # 0
  THEN ToSpliced(stack, Len(stack) - change.stackPop, change.stackPop, <<>>)
  ELSE stack

ApplyStackMove(stack, change) ==
  IF change.hasStackMove
  THEN LET iota == IF change.moveFrom >= 0 /\ change.moveFrom < Len(stack)
                   THEN stack[change.moveFrom + 1]
                   ELSE [t |-> "undefined"]
       IN ToSpliced(ToSpliced(stack, change.moveFrom, 1, <<>>),
                    change.moveTo, 0, <<iota>>)
  ELSE stack

ApplyStackPush(stack, change) ==
  IF change.hasStackPush THEN stack \o change.stackPush ELSE stack

\* VM.apply, the frame fields of one change
ApplyFrameSet(frames, change) ==
  IF change.hasFrameSet THEN change.frameSet ELSE frames

ApplyFramePop(frames, change) ==
  IF change.framePop # 0
  THEN ToSpliced(frames, Len(frames) - 1, 1, <<>>)
  ELSE frames

ApplyFramePush(frames, change) ==
  IF change.hasFramePush THEN frames \o change.framePush ELSE frames

\* VM.apply for one change: the body of the loop over diff
Apply(v, change) ==
  LET parenCount == ApplyParenCount(v.parenCount, change)
      parenthesized ==
        ApplyParenthesized(v.parenthesized, parenCount, v.escapeNext, change)
      escapeNext == ApplyEscapeNext(v.escapeNext, change)
      stack ==
        ApplyStackPush(ApplyStackMove(ApplyStackPop(
          ApplyStackSet(v.stack, change), change), change), change)
      frames ==
        ApplyFramePush(ApplyFramePop(
          ApplyFrameSet(v.frames, change), change), change)
  IN VM(stack, frames, parenCount, parenthesized, escapeNext)

\* the variables of the loop of VM.apply
ApplyLocals(v) ==
  [parenCount |-> v.parenCount, parenthesized |-> v.parenthesized,
   escapeNext |-> v.escapeNext, stack |-> v.stack, frames |-> v.frames]

\* for (const change of diff): the body, on the variables of the loop
RECURSIVE ApplyLoop(_, _)
ApplyLoop(l, diff) ==
  IF diff = <<>> THEN l
  ELSE LET change == Head(diff)
           parenCount == ApplyParenCount(l.parenCount, change)
           parenthesized ==
             ApplyParenthesized(l.parenthesized, parenCount, l.escapeNext,
                                change)
           escapeNext == ApplyEscapeNext(l.escapeNext, change)
           stack ==
             ApplyStackPush(ApplyStackMove(ApplyStackPop(
               ApplyStackSet(l.stack, change), change), change), change)
           frames ==
             ApplyFramePush(ApplyFramePop(
               ApplyFrameSet(l.frames, change), change), change)
       IN ApplyLoop([parenCount |-> parenCount,
                     parenthesized |-> parenthesized,
                     escapeNext |-> escapeNext, stack |-> stack,
                     frames |-> frames], Tail(diff))

\* mutant: the changes are taken from the last to the first
ApplyAllBackwards(v, diff) ==
  LET l == ApplyLoop(ApplyLocals(v),
                     [i \in 1..Len(diff) |-> diff[Len(diff) + 1 - i]])
  IN VM(l.stack, l.frames, l.parenCount, l.parenthesized, l.escapeNext)

\* VM.apply(...diff)
ApplyAll(v, diff) ==
  LET l == ApplyLoop(ApplyLocals(v), diff)
  IN VM(l.stack, l.frames, l.parenCount, l.parenthesized, l.escapeNext)

\* mutant: the iotas come back top first
GetTopFirst(v, tys) ==
  LET n == Len(tys)
      len == Len(v.stack)
  IN IF len < n
     THEN [thrown |-> TRUE, vals |-> <<>>]
     ELSE IF \E i \in 1..n :
               tys[i] # "null" /\ TypeOf(v.stack[len - n + i]) # tys[i]
          THEN [thrown |-> TRUE, vals |-> <<>>]
          ELSE [thrown |-> FALSE,
                vals |-> [i \in 1..n |-> v.stack[len + 1 - i]]]

\* VM.get(...tys): a thrown Error, or the top Len(tys) iotas, deepest first.
\* A ty of "null" accepts any iota.
Get(v, tys) ==
  LET n == Len(tys)
      len == Len(v.stack)
  IN IF len < n
     THEN [thrown |-> TRUE, vals |-> <<>>]
     ELSE IF \E i \in 1..n :
               tys[i] # "null" /\ TypeOf(v.stack[len - n + i]) # tys[i]
          THEN [thrown |-> TRUE, vals |-> <<>>]
          ELSE [thrown |-> FALSE,
                vals |-> [i \in 1..n |-> v.stack[len - n + i]]]

\* ---------------------------------------------------------------- results

\* A CastResult; thrown marks an Error thrown instead of a result, and newAcc
\* that the action allocated a fresh accumulator array (the next heap index)
CastResult(cast, diff, resolutionType, sound) ==
  [cast |-> cast, diff |-> diff, resolutionType |-> resolutionType,
   sound |-> sound, thrown |-> FALSE, newAcc |-> FALSE, isCast |-> TRUE]

\* An action that returned a bare Change
ChangeResult(diff) ==
  [cast |-> Null, diff |-> diff, resolutionType |-> "EVALUATED",
   sound |-> "NORMAL_EXECUTE", thrown |-> FALSE, newAcc |-> FALSE,
   isCast |-> FALSE]

Thrown ==
  [cast |-> Null, diff |-> NoChange, resolutionType |-> "UNRESOLVED",
   sound |-> "NOTHING", thrown |-> TRUE, newAcc |-> FALSE, isCast |-> TRUE]

Push(xs) == [NoChange EXCEPT !.hasStackPush = TRUE, !.stackPush = xs]

\* ---------------------------------------------------------------- actions

\* The built-in actions. nacc is the heap index a fresh accumulator gets.
IntrospectionAction(iota, v) ==
  IF v.parenCount = 0
  THEN CastResult(iota, [NoChange EXCEPT !.escapeIntro = TRUE],
                  "EVALUATED", "NORMAL_EXECUTE")
  ELSE CastResult(iota, [NoChange EXCEPT !.hasEscapePush = TRUE,
                                         !.escapePush = iota,
                                         !.escapeIntro = TRUE],
                  "ESCAPED", "NORMAL_EXECUTE")

RetrospectionAction(iota, v) ==
  IF v.parenCount = 0
  THEN CastResult(iota, NoChange, "ERRORED", "MISHAP")
  ELSE IF v.parenCount = 1
  THEN CastResult(iota,
         [NoChange EXCEPT !.escapeRetro = TRUE, !.hasStackPush = TRUE,
            !.stackPush = <<List([i \in 1..Len(v.parenthesized) |->
                                    v.parenthesized[i].iota])>>],
         "EVALUATED", "NORMAL_EXECUTE")
  ELSE CastResult(iota, [NoChange EXCEPT !.escapeRetro = TRUE,
                                         !.hasEscapePush = TRUE,
                                         !.escapePush = iota],
                  "ESCAPED", "NORMAL_EXECUTE")

ConsiderationAction(iota, v) ==
  ChangeResult([NoChange EXCEPT !.escapeConsider = TRUE])

VacantReflAction(iota, v) == ChangeResult(Push(<<List(<<>>)>>))

MindsReflAction(iota, v) == ChangeResult(Push(<<Caster>>))

NumericalReflAction(iota, v) == ChangeResult(Push(<<Double(iota.arg)>>))

NullaryReflAction(iota, v) == ChangeResult(Push(<<Null>>))

TrueReflAction(iota, v) == ChangeResult(Push(<<Boolean(TRUE)>>))

FalseReflAction(iota, v) == ChangeResult(Push(<<Boolean(FALSE)>>))

\* Circle's, Arc's and Euler's Reflection
ConstantReflAction(iota, v) ==
  ChangeResult(Push(<<Double(CASE iota = CIRCLES_REFL -> MathPI2
                               [] iota = ARCS_REFL -> MathPI
                               [] iota = EULERS_REFL -> MathE)>>))

\* the seven Vector Reflections
VectorReflAction(iota, v) ==
  ChangeResult(Push(<<CASE iota = VECTOR_REFL_ZERO -> Vector3(0, 0, 0)
                        [] iota = VECTOR_REFL_X -> Vector3(1, 0, 0)
                        [] iota = VECTOR_REFL_Y -> Vector3(0, 1, 0)
                        [] iota = VECTOR_REFL_Z -> Vector3(0, 0, 1)
                        [] iota = VECTOR_REFL_NEG_X -> Vector3(0 - 1, 0, 0)
                        [] iota = VECTOR_REFL_NEG_Y -> Vector3(0, 0 - 1, 0)
                        [] iota = VECTOR_REFL_NEG_Z -> Vector3(0, 0, 0 - 1)>>))

VectorExalAction(iota, v) ==
  LET got == Get(v, <<"Double", "Double", "Double">>)
  IN IF got.thrown THEN Thrown
     ELSE ChangeResult(
            [Push(<<Vector3(got.vals[1].v, got.vals[2].v, got.vals[3].v)>>)
               EXCEPT !.stackPop = 3])

SinglesPurifAction(iota, v) ==
  LET got == Get(v, <<"null">>)
  IN IF got.thrown THEN Thrown
     ELSE ChangeResult([Push(<<List(<<got.vals[1]>>)>>) EXCEPT !.stackPop = 1])

HermesGambitAction(iota, v) ==
  LET got == Get(v, <<"null">>)
  IN IF got.thrown THEN Thrown
     ELSE LET x == got.vals[1]
              body == IF x.t = "List" THEN x.vs ELSE <<x>>
          IN CastResult(iota,
               [NoChange EXCEPT !.stackPop = 1, !.hasFramePush = TRUE,
                                !.framePush = <<HermesFrame(body, TRUE)>>],
               "EVALUATED", "HERMES")

ThothsGambitAction(iota, v, nacc) ==
  LET got == Get(v, <<"List", "List">>)
  IN IF got.thrown THEN Thrown
     ELSE [CastResult(iota,
             [NoChange EXCEPT !.stackPop = 2, !.hasFramePush = TRUE,
                !.framePush = <<ThothFrame(got.vals[2].vs, got.vals[1].vs,
                                           FALSE, <<>>, nacc)>>],
             "EVALUATED", "THOTH") EXCEPT !.newAcc = TRUE]

\* Patterns whose action is a constant Change, not a function: one that
\* pops frames, one that sets them and one that pushes one
FRAME_POP == Pattern("framePop", 1)
FRAME_SET == Pattern("frameSet", 0)
FRAME_PUSH == Pattern("framePush", 0)

ConstantFrames == <<HermesFrame(<<VACANT_REFL>>, TRUE)>>

\* the Change each such pattern is constructed with as its execute property
ConstantActions ==
  [name \in {"framePop", "frameSet", "framePush"} |->
     CASE name = "framePop" -> [NoChange EXCEPT !.framePop = 1]
       [] name = "frameSet" ->
            [NoChange EXCEPT !.hasFrameSet = TRUE,
                             !.frameSet = ConstantFrames]
       [] OTHER ->
            [NoChange EXCEPT !.hasFramePush = TRUE,
                             !.framePush = ConstantFrames]]

IsConstant(iota) == iota.t = "Pattern" /\ iota.name \in DOMAIN ConstantActions

\* the Change such a pattern holds as its execute property: one object, read
\* each time the pattern is executed
ConstantAction(iota) == acts[iota.name]

\* Pattern.execute of each pattern: the constant it is, or the function it
\* is called with the VM
PatternExecute(iota, v, nacc) ==
  CASE iota.name \in {"framePop", "frameSet", "framePush"} ->
         ChangeResult(ConstantAction(iota))
    [] iota.name = "Introspection" -> IntrospectionAction(iota, v)
    [] iota.name = "Retrospection" -> RetrospectionAction(iota, v)
    [] iota.name = "Consideration" -> ConsiderationAction(iota, v)
    [] iota.name = "Vacant Reflection" -> VacantReflAction(iota, v)
    [] iota.name = "Mind's Reflection" -> MindsReflAction(iota, v)
    [] iota.name = "Numerical Reflection" -> NumericalReflAction(iota, v)
    [] iota.name = "Single's Purification" -> SinglesPurifAction(iota, v)
    [] iota.name = "Hermes' Gambit" -> HermesGambitAction(iota, v)
    [] iota.name = "Thoth's Gambit" -> ThothsGambitAction(iota, v, nacc)
    [] iota.name = "Nullary Reflection" -> NullaryReflAction(iota, v)
    [] iota.name = "True Reflection" -> TrueReflAction(iota, v)
    [] iota.name = "False Reflection" -> FalseReflAction(iota, v)
    [] iota \in {CIRCLES_REFL, ARCS_REFL, EULERS_REFL} ->
         ConstantReflAction(iota, v)
    [] iota.name = "Vector Exaltation" -> VectorExalAction(iota, v)
    [] OTHER -> VectorReflAction(iota, v)

\* the array of frames a Continuation holds, passed as a value
FrameArray(frames) == [t |-> "Array", items |-> frames]

\* VM.executeJump(iota): frameSet is the cont property of what it is handed,
\* and that is undefined unless it is handed a Continuation
ExecuteJump(iota) ==
  CastResult(iota,
             IF iota.t = "Continuation"
             THEN [NoChange EXCEPT !.hasFrameSet = TRUE, !.frameSet = iota.cont]
             ELSE NoChange,
             "EVALUATED", "HERMES")

\* Continuation.execute(vm): vm.executeJump(this.cont)
ContinuationExecute(iota, v) == ExecuteJump(FrameArray(iota.cont))

\* iota.execute(this, env)
IotaExecute(iota, v, nacc) ==
  IF iota.t = "Continuation" THEN ContinuationExecute(iota, v)
  ELSE PatternExecute(iota, v, nacc)

\* ---------------------------------------------------------------- execute

\* mutant: the action runs whatever parenCount is
ExecuteBranchNoParen(v, iota) ==
  IF HasExecute(iota) /\ ~v.escapeNext
  THEN "action"
  ELSE IF v.escapeNext \/ v.parenCount # 0 THEN "escape" ELSE "invalid"

\* mutant: an iota that cannot run is pushed instead of being INVALID
ExecuteBranchValuesPush(v, iota) ==
  IF HasExecute(iota) /\ ~v.escapeNext
     /\ (v.parenCount = 0 \/ (iota.t = "Pattern" /\ MustEscape(iota)))
  THEN "action"
  ELSE "escape"

\* Which of the three returns of VM.execute is taken
ExecuteBranch(v, iota) ==
  IF HasExecute(iota) /\ ~v.escapeNext
     /\ (v.parenCount = 0 \/ (iota.t = "Pattern" /\ MustEscape(iota)))
  THEN "action"
  ELSE IF v.escapeNext \/ v.parenCount # 0 THEN "escape" ELSE "invalid"

\* mutant: the result of an action is always wrapped as if it were a Change
ExecuteRewrap(v, iota, nacc) ==
  CASE ExecuteBranch(v, iota) = "action" ->
         LET result == IotaExecute(iota, v, nacc)
         IN [result EXCEPT !.cast = iota, !.isCast = TRUE,
                           !.resolutionType = "EVALUATED",
                           !.sound = "NORMAL_EXECUTE"]
    [] ExecuteBranch(v, iota) = "escape" ->
         CastResult(iota,
           IF v.parenCount # 0
           THEN [NoChange EXCEPT !.hasEscapePush = TRUE, !.escapePush = iota]
           ELSE Push(<<iota>>),
           "ESCAPED", "NORMAL_EXECUTE")
    [] OTHER -> CastResult(iota, NoChange, "INVALID", "MISHAP")

\* VM.execute
Execute(v, iota, nacc) ==
  CASE ExecuteBranch(v, iota) = "action" ->
         LET result == IotaExecute(iota, v, nacc)
         IN IF result.isCast THEN result
            ELSE [result EXCEPT !.cast = iota, !.isCast = TRUE]
    [] ExecuteBranch(v, iota) = "escape" ->
         CastResult(iota,
           IF v.parenCount # 0
           THEN [NoChange EXCEPT !.hasEscapePush = TRUE, !.escapePush = iota]
           ELSE Push(<<iota>>),
           "ESCAPED", "NORMAL_EXECUTE")
    [] OTHER -> CastResult(iota, NoChange, "INVALID", "MISHAP")

\* ---------------------------------------------------------------- frame steps

\* HermesFrame.evaluate: the change that pops this frame and pushes the frame
\* over the rest, computed before the head is executed
HermesNewCont(frame) ==
  LET rest == Tail(frame.patterns)
  IN IF rest # <<>>
     THEN [NoChange EXCEPT !.framePop = 1, !.hasFramePush = TRUE,
             !.framePush = <<HermesFrame(rest, frame.capturesBrk)>>]
     ELSE [NoChange EXCEPT !.framePop = 1]

\* mutant: the frame over the rest is not pushed back
HermesComposeUnwind(frame, diff) ==
  [diff EXCEPT !.framePop = @ + 1]

\* mutant: the frame over the rest is pushed above the frames of the head
HermesComposeOnTop(frame, diff) ==
  LET rest == Tail(frame.patterns)
      withPush ==
        IF rest # <<>>
        THEN [diff EXCEPT !.hasFramePush = TRUE,
                !.framePush = @ \o <<HermesFrame(rest, frame.capturesBrk)>>]
        ELSE diff
  IN [withPush EXCEPT !.framePop = @ + 1]

\* HermesFrame.evaluate: the head's diff with the frame transition written
\* into it
HermesCompose(frame, diff) ==
  LET rest == Tail(frame.patterns)
      withPush ==
        IF rest # <<>>
        THEN [diff EXCEPT !.hasFramePush = TRUE,
                !.framePush = <<HermesFrame(rest, frame.capturesBrk)>> \o @]
        ELSE diff
  IN [withPush EXCEPT !.framePop = @ + 1]

\* HermesFrame.evaluate; a frame over no patterns has no head to execute and
\* the read of its execute property throws
HermesFrameEvaluate(frame, v, nacc) ==
  IF frame.patterns = <<>> THEN Thrown
  ELSE LET result ==
             Execute(Apply(v, HermesNewCont(frame)), Head(frame.patterns), nacc)
       IN IF result.thrown THEN result
          ELSE [result EXCEPT !.diff = HermesCompose(frame, @)]

\* HermesFrame.evaluate writes into result.diff, and for a head whose execute
\* property is a constant Change that object is the diff execute wraps (for a
\* constant CastResult, the diff it holds): the property after the call
HermesActs(frame, v, nacc, held) ==
  IF frame.patterns # <<>> /\ IsConstant(Head(frame.patterns))
     /\ ExecuteBranch(Apply(v, HermesNewCont(frame)), Head(frame.patterns))
          = "action"
  THEN [held EXCEPT ![Head(frame.patterns).name] =
                      HermesFrameEvaluate(frame, v, nacc).diff]
  ELSE held

\* mutant: only the top of the stack is accumulated
ThothAccTopOnly(frame, v, heap) ==
  IF frame.hasBase /\ v.stack # <<>>
  THEN Append(heap[frame.acc], v.stack[Len(v.stack)])
  ELSE heap[frame.acc]

\* ThothFrame.evaluate, the accumulator after the call: the stack is
\* appended in place unless this is the first step of the fold
ThothAcc(frame, v, heap) ==
  IF frame.hasBase THEN heap[frame.acc] \o v.stack ELSE heap[frame.acc]

\* mutant: the stack is never set back to the base
ThothStackSetNever(frame) == FALSE

\* ThothFrame.evaluate, stackSet: this.baseStack !== null ? stack : undefined
ThothStackSet(frame) == frame.hasBase

\* ThothFrame.evaluate, the CastResult
ThothFrameEvaluate(frame, v, heap) ==
  LET stack == IF frame.hasBase THEN frame.baseStack ELSE v.stack
      image1 == [NoChange EXCEPT !.framePop = 1,
                   !.hasStackSet = ThothStackSet(frame),
                   !.stackSet = IF ThothStackSet(frame) THEN stack ELSE <<>>]
      image2 ==
        IF frame.data # <<>>
        THEN [image1 EXCEPT !.hasStackPush = TRUE,
                !.stackPush = <<Head(frame.data)>>,
                !.hasFramePush = TRUE,
                !.framePush =
                  <<ThothFrame(Tail(frame.data), frame.code, TRUE, stack,
                               frame.acc),
                    HermesFrame(frame.code, FALSE)>>]
        ELSE [image1 EXCEPT !.hasStackPush = TRUE,
                !.stackPush = <<List(ThothAcc(frame, v, heap))>>]
  IN CastResult(List(frame.code), image2, "EVALUATED", "THOTH")

\* mutant: the stack handed in is left out of the list
ThothRestoreAccKept(frame, stack, heap) == heap[frame.acc]

\* ThothFrame.restoreStack, the accumulator after the call:
\* this.acc.push(...stack)
ThothRestoreAcc(frame, stack, heap) == heap[frame.acc] \o stack

\* ThothFrame.restoreStack, the Change returned
ThothFrameRestoreStack(frame, stack, heap) ==
  [NoChange EXCEPT !.hasStackSet = TRUE,
     !.stackSet = IF frame.hasBase THEN frame.baseStack ELSE <<>>,
     !.hasStackPush = TRUE,
     !.stackPush = <<List(ThothRestoreAcc(frame, stack, heap))>>]

\* ---------------------------------------------------------------- compiler

\* The literal trees Iota.patterns takes
LitPattern(p) == [k |-> "pattern", p |-> p]
LitNumber(n) == [k |-> "number", n |-> n]
LitList(xs) == [k |-> "list", xs |-> xs]
LitNull == [k |-> "null"]
LitBoolean(b) == [k |-> "boolean", b |-> b]
LitVector(x, y, z) == [k |-> "vector", x |-> x, y |-> y, z |-> z]

\* Array.from({ length: n }).fill(x)
Fill(n, x) == [i \in 1..n |-> x]

\* the lowering of a number
PatternsNumber(n) ==
  CASE n = MathPI2 -> CIRCLES_REFL
    [] n = MathPI -> ARCS_REFL
    [] n = MathE -> EULERS_REFL
    [] OTHER -> NUMERICAL_REFL(n)

\* the Vector Reflection of a Vector3 that equals an axis constant, if any
PatternsAxis(elem) ==
  LET v == Vector3(elem.x, elem.y, elem.z)
  IN CASE Vector3Equals(v, Vector3(0, 0, 0)) -> <<VECTOR_REFL_ZERO>>
       [] Vector3Equals(v, Vector3(1, 0, 0)) -> <<VECTOR_REFL_X>>
       [] Vector3Equals(v, Vector3(0, 1, 0)) -> <<VECTOR_REFL_Y>>
       [] Vector3Equals(v, Vector3(0, 0, 1)) -> <<VECTOR_REFL_Z>>
       [] Vector3Equals(v, Vector3(0 - 1, 0, 0)) -> <<VECTOR_REFL_NEG_X>>
       [] Vector3Equals(v, Vector3(0, 0 - 1, 0)) -> <<VECTOR_REFL_NEG_Y>>
       [] Vector3Equals(v, Vector3(0, 0, 0 - 1)) -> <<VECTOR_REFL_NEG_Z>>
       [] OTHER -> <<>>

\* mutant: the second component is taken for the third
VectorItemsYForZ(elem) ==
  <<LitNumber(elem.x), LitNumber(elem.y), LitNumber(elem.y),
    LitPattern(VECTOR_EXAL)>>

\* [elem.x, elem.y, elem.z, VECTOR_EXAL]
VectorItems(elem) ==
  <<LitNumber(elem.x), LitNumber(elem.y), LitNumber(elem.z),
    LitPattern(VECTOR_EXAL)>>

RECURSIVE PatternsOf(_, _)
RECURSIVE PatternsElem(_, _)

\* mutant: a mustEscape pattern is emitted without Considerations
PatternsElemBare(elem, considerations) ==
  CASE elem.k = "null" -> <<NULLARY_REFL>>
    [] elem.k = "boolean" -> <<IF elem.b THEN TRUE_REFL ELSE FALSE_REFL>>
    [] elem.k = "number" -> <<PatternsNumber(elem.n)>>
    [] elem.k = "vector" ->
         IF PatternsAxis(elem) # <<>> THEN PatternsAxis(elem)
         ELSE PatternsOf(VectorItems(elem), considerations)
    [] elem.k = "list" ->
         <<INTROSPECTION>> \o PatternsOf(elem.xs, considerations * 2)
           \o <<RETROSPECTION>>
    [] elem.k = "pattern" -> <<elem.p>>

\* mutant: the count grows by one on each nesting level
PatternsElemLinear(elem, considerations) ==
  CASE elem.k = "null" -> <<NULLARY_REFL>>
    [] elem.k = "boolean" -> <<IF elem.b THEN TRUE_REFL ELSE FALSE_REFL>>
    [] elem.k = "number" -> <<PatternsNumber(elem.n)>>
    [] elem.k = "vector" ->
         IF PatternsAxis(elem) # <<>> THEN PatternsAxis(elem)
         ELSE PatternsOf(VectorItems(elem), considerations)
    [] elem.k = "list" ->
         <<INTROSPECTION>> \o PatternsOf(elem.xs, considerations + 1)
           \o <<RETROSPECTION>>
    [] elem.k = "pattern" ->
         IF MustEscape(elem.p) /\ considerations > 1
         THEN Append(Fill(considerations - 1, CONSIDERATION), elem.p)
         ELSE <<elem.p>>

\* the callback of flatMap in Iota.patterns
PatternsElem(elem, considerations) ==
  CASE elem.k = "null" -> <<NULLARY_REFL>>
    [] elem.k = "boolean" -> <<IF elem.b THEN TRUE_REFL ELSE FALSE_REFL>>
    [] elem.k = "number" -> <<PatternsNumber(elem.n)>>
    [] elem.k = "vector" ->
         IF PatternsAxis(elem) # <<>> THEN PatternsAxis(elem)
         ELSE PatternsOf(VectorItems(elem), considerations)
    [] elem.k = "list" ->
         <<INTROSPECTION>> \o PatternsOf(elem.xs, considerations * 2)
           \o <<RETROSPECTION>>
    [] elem.k = "pattern" ->
         IF MustEscape(elem.p) /\ considerations > 1
         THEN Append(Fill(considerations - 1, CONSIDERATION), elem.p)
         ELSE <<elem.p>>

\* the inner function patterns(list, considerations) of Iota.patterns
PatternsOf(list, considerations) ==
  IF list = <<>> THEN <<>>
  ELSE PatternsElem(Head(list), considerations)
         \o PatternsOf(Tail(list), considerations)

\* Iota.patterns(...list)
Patterns(list) == PatternsOf(list, 1)

\* ---------------------------------------------------------------- run

SeqsUpTo(S, n) == UNION {[1..k -> S] : k \in 0..n}

\* what run is called with: free input, or a compiled literal program
FreeProg ==
  [kind |-> "free", xs |-> <<>>, data |-> <<>>, tail |-> <<>>, entry |-> <<>>,
   shape |-> "", stack |-> <<>>]
QuoteProg(xs) ==
  [kind |-> "quote", xs |-> xs, data |-> <<>>, tail |-> <<>>, entry |-> <<>>,
   shape |-> "", stack |-> <<>>]
ThothProg(code, data, tail) ==
  [kind |-> "thoth", xs |-> code, data |-> data, tail |-> tail,
   entry |-> <<>>, shape |-> "", stack |-> <<>>]
\* Iota.patterns(new Vector3(x, y, z)), data being <<x, y, z>>
VectorProg(data) ==
  [kind |-> "vector", xs |-> <<>>, data |-> data, tail |-> <<>>,
   entry |-> <<>>, shape |-> "", stack |-> <<>>]
\* Iota.patterns of a list literal of the given shape around the pattern p
ListProg(shape, p) ==
  [kind |-> "list", xs |-> <<p>>, data |-> <<>>, tail |-> <<>>,
   entry |-> <<>>, shape |-> shape,
   stack |-> <<>>]
\* run called with the iotas xs on a VM that holds the frames entry
GivenProg(xs, entry) ==
  [kind |-> "given", xs |-> xs, data |-> <<>>, tail |-> <<>>, entry |-> entry,
   shape |-> "", stack |-> <<>>]

\* run called with Thoth's Gambit on a VM whose stack is base, the List of
\* the body and the List of the data
FoldProg(base, code, data) ==
  [kind |-> "fold", xs |-> <<THOTHS_GAMBIT>>, data |-> <<>>, tail |-> <<>>,
   entry |-> <<>>, shape |-> "",
   stack |-> base \o <<List(code), List(data)>>]

\* run called with no iotas on a VM that holds the frames entry
HermesProg(entry) ==
  [kind |-> "hermes", xs |-> <<>>, data |-> <<>>, tail |-> <<>>,
   entry |-> entry, shape |-> "", stack |-> <<>>]

\* the iotas a free-input run may be given
Alphabet ==
  {INTROSPECTION, RETROSPECTION, CONSIDERATION, VACANT_REFL, SINGLES_PURIF,
   HERMES_GAMBIT, THOTHS_GAMBIT, NUMERICAL_REFL(1), Null, Double(0),
   List(<<>>)}

\* the patterns a quoted list literal may hold
QuoteAlphabet ==
  {INTROSPECTION, RETROSPECTION, CONSIDERATION, MINDS_REFL, HERMES_GAMBIT}

\* the bodies of the compiled Thoth programs
ThothBodies == {<<HERMES_GAMBIT>>, <<INTROSPECTION>>}

\* the patterns that may follow a compiled Thoth program
ThothTails == {<<>>, <<RETROSPECTION>>}

DataAlphabet == {1, 2, 3}

\* the frames captured in the Continuation iota of the given programs
JumpFrames == <<HermesFrame(<<VACANT_REFL>>, TRUE)>>
JUMP == Continuation(JumpFrames)

\* the iotas of a given program
GivenAlphabet ==
  {RETROSPECTION, Double(0), VACANT_REFL, SINGLES_PURIF, VECTOR_EXAL, JUMP}

\* the components of the Vector3 literals of the compiled vector programs
VectorAlphabet == {0 - 1, 0, 1, 2, MathPI2, MathPI, MathE}

\* the frames the VM of a given program holds when run is called
EntryFrames ==
  {<<>>,
   <<HermesFrame(<<Double(0), VACANT_REFL>>, FALSE)>>,
   <<HermesFrame(<<MINDS_REFL>>, TRUE),
     HermesFrame(<<RETROSPECTION, Double(0), VACANT_REFL>>, FALSE)>>,
   <<HermesFrame(<<MINDS_REFL>>, TRUE),
     HermesFrame(<<JUMP, VACANT_REFL>>, FALSE)>>}

\* the patterns of the top HermesFrame of a hermes program: a head whose
\* diff holds no frame field, framePush, framePop or frameSet, and the rest
HermesPatterns ==
  {<<head>> \o rest :
     head \in {VACANT_REFL, FRAME_PUSH, FRAME_POP, FRAME_SET},
     rest \in {<<>>, <<VACANT_REFL>>}}
  \cup {<<MINDS_REFL, HERMES_GAMBIT>>,
        <<MINDS_REFL, HERMES_GAMBIT, VACANT_REFL>>}

\* the frames below that frame
HermesBelow ==
  {<<>>,
   <<HermesFrame(<<MINDS_REFL>>, TRUE)>>,
   <<HermesFrame(<<MINDS_REFL>>, TRUE),
     HermesFrame(<<NULLARY_REFL>>, FALSE)>>}

LitPatterns(xs) == [i \in 1..Len(xs) |-> LitPattern(xs[i])]
LitNumbers(ns) == [i \in 1..Len(ns) |-> LitNumber(ns[i])]

\* Iota.patterns(0, [code...], [d1..dn], THOTHS_GAMBIT, tail...)
ThothIotas(code, data, tail) ==
  Patterns(<<LitNumber(0), LitList(LitPatterns(code)),
             LitList(LitNumbers(data)), LitPattern(THOTHS_GAMBIT)>>
           \o LitPatterns(tail))

\* Iota.patterns([xs...])
QuoteIotas(xs) == Patterns(<<LitList(LitPatterns(xs))>>)

\* ---------------------------------------------------------------- grid

\* enum HexDir: NORTH_EAST, EAST, SOUTH_EAST, SOUTH_WEST, WEST, NORTH_WEST
HexDir == 0..5
NORTH_EAST == 0
EAST == 1
SOUTH_EAST == 2
SOUTH_WEST == 3
WEST == 4
NORTH_WEST == 5

\* enum HexAngle: FORWARD, RIGHT, RIGHT_BACK, BACK, LEFT_BACK, LEFT
HexAngle == 0..5

HexPattern(startDir, angles) == [startDir |-> startDir, angles |-> angles]

\* A string is the sequence of its characters.
Str_northeast == <<"n", "o", "r", "t", "h", "e", "a", "s", "t">>
Str_east == <<"e", "a", "s", "t">>
Str_southeast == <<"s", "o", "u", "t", "h", "e", "a", "s", "t">>
Str_southwest == <<"s", "o", "u", "t", "h", "w", "e", "s", "t">>
Str_west == <<"w", "e", "s", "t">>
Str_northwest == <<"n", "o", "r", "t", "h", "w", "e", "s", "t">>

\* what a call returns, or the Error it throws
Returned(value) == [thrown |-> FALSE, error |-> "", value |-> value]
Raised(error) ==
  [thrown |-> TRUE, error |-> error, value |-> HexPattern(NORTH_EAST, <<>>)]

\* String.prototype.split(','): the fields between the commas, at least one
RECURSIVE Split(_)
Split(str) ==
  IF str = <<>> THEN << <<>> >>
  ELSE LET rest == Split(Tail(str))
       IN IF Head(str) = ","
          THEN << <<>> >> \o rest
          ELSE << <<Head(str)>> \o rest[1] >> \o Tail(rest)

\* mutant: the names are read in the order toString lists them, so that
\* the fourth case of parse is SOUTH_WEST and the sixth NORTH_WEST
ParseDirByPosition(l) ==
  CASE l = Str_northeast -> NORTH_EAST
    [] l = Str_east -> EAST
    [] l = Str_southeast -> SOUTH_EAST
    [] l = Str_northwest -> SOUTH_WEST
    [] l = Str_west -> WEST
    [] l = Str_southwest -> NORTH_WEST
    [] OTHER -> 0 - 1

\* the first switch of parse; -1 stands for its default case
ParseDir(l) ==
  CASE l = Str_northeast -> NORTH_EAST
    [] l = Str_east -> EAST
    [] l = Str_southeast -> SOUTH_EAST
    [] l = Str_northwest -> NORTH_WEST
    [] l = Str_west -> WEST
    [] l = Str_southwest -> SOUTH_WEST
    [] OTHER -> 0 - 1

\* the second switch of parse; -1 stands for its default case
ParseAngle(c) ==
  CASE c = "w" -> 0
    [] c = "e" -> 1
    [] c = "d" -> 2
    [] c = "s" -> 3
    [] c = "a" -> 4
    [] c = "q" -> 5
    [] OTHER -> 0 - 1

\* HexPattern.parse(str): const [l, r] = str.split(','), so that fields
\* after the second are dropped and r is undefined when there is no comma;
\* Array.from(undefined) throws a TypeError
HexPatternParse(str) ==
  LET fields == Split(str)
      l == fields[1]
      startDir == ParseDir(l)
  IN IF startDir < 0 THEN Raised("Unknown direction")
     ELSE IF Len(fields) < 2 THEN Raised("TypeError")
     ELSE LET r == fields[2]
              angles == [i \in 1..Len(r) |-> ParseAngle(r[i])]
          IN IF \E i \in 1..Len(r) : angles[i] < 0
             THEN Raised("Unknown angle")
             ELSE Returned(HexPattern(startDir, angles))

ToStringDir(startDir) ==
  CASE startDir = NORTH_EAST -> Str_northeast
    [] startDir = EAST -> Str_east
    [] startDir = SOUTH_EAST -> Str_southeast
    [] startDir = SOUTH_WEST -> Str_southwest
    [] startDir = WEST -> Str_west
    [] startDir = NORTH_WEST -> Str_northwest
    [] OTHER -> <<>>

ToStringAngle(angle) ==
  CASE angle = 0 -> <<"w">>
    [] angle = 1 -> <<"e">>
    [] angle = 2 -> <<"d">>
    [] angle = 3 -> <<"s">>
    [] angle = 4 -> <<"a">>
    [] angle = 5 -> <<"q">>
    [] OTHER -> <<>>

RECURSIVE ToStringAngles(_)
ToStringAngles(angles) ==
  IF angles = <<>> THEN <<>>
  ELSE ToStringAngle(Head(angles)) \o ToStringAngles(Tail(angles))

\* HexPattern.toString()
HexPatternToString(p) ==
  ToStringDir(p.startDir) \o <<",">> \o ToStringAngles(p.angles)

RECURSIVE Sum(_)
Sum(xs) == IF xs = <<>> THEN 0 ELSE Head(xs) + Sum(Tail(xs))

Reverse(xs) == [i \in 1..Len(xs) |-> xs[Len(xs) + 1 - i]]

\* mutant: the angles are mapped but not reversed
HexPatternReversedInPlace(p) ==
  IF p.angles = <<>> THEN Raised("TypeError")
  ELSE Returned(HexPattern((p.startDir + Sum(p.angles) + 3) % 6,
                           [i \in 1..Len(p.angles) |-> (p.angles[i] * 5) % 6]))

\* mutant: the reversed pattern starts in the direction the pattern ends in
HexPatternReversedForward(p) ==
  IF p.angles = <<>> THEN Raised("TypeError")
  ELSE Returned(HexPattern((p.startDir + Sum(p.angles)) % 6,
                           Reverse([i \in 1..Len(p.angles) |->
                                      (p.angles[i] * 5) % 6])))

\* HexPattern.reversed(): angles.reduce((a, b) => a + b) has no initial
\* value and throws a TypeError on an empty array
HexPatternReversed(p) ==
  IF p.angles = <<>> THEN Raised("TypeError")
  ELSE LET totalAngle == Sum(p.angles)
           reverseDir == (p.startDir + totalAngle + 3) % 6
           reverseAngles ==
             Reverse([i \in 1..Len(p.angles) |-> (p.angles[i] * 5) % 6])
       IN Returned(HexPattern(reverseDir, reverseAngles))

\* mutant: the direction is mirrored, the angles are kept
HexPatternMirroredDirOnly(p) ==
  Returned(HexPattern(5 - p.startDir, p.angles))

\* HexPattern.mirrored()
HexPatternMirrored(p) ==
  LET mirrorDir == 5 - p.startDir
      mirrorAngles == [i \in 1..Len(p.angles) |-> (p.angles[i] * 5) % 6]
  IN Returned(HexPattern(mirrorDir, mirrorAngles))

\* HexPattern.rotated(angle)
HexPatternRotated(p, angle) ==
  LET rotatedDir == (p.startDir + angle) % 6
      rotatedAngles == p.angles
  IN Returned(HexPattern(rotatedDir, rotatedAngles))

\* class HexCoord
HexCoord(q, r) == [q |-> q, r |-> r]

ORIGIN == HexCoord(0, 0)

\* HexCoord.DIR, indexed by HexDir
DIR ==
  <<HexCoord(1, 0 - 1), HexCoord(1, 0), HexCoord(0, 1), HexCoord(0 - 1, 1),
    HexCoord(0 - 1, 0), HexCoord(0, 0 - 1)>>

\* this.add(dir) for a HexDir: HexCoord.from(dir) is HexCoord.DIR[dir]
HexCoordAdd(this, dir) ==
  HexCoord(this.q + DIR[dir + 1].q, this.r + DIR[dir + 1].r)

\* HexPattern.coords, the for loop over the angles
RECURSIVE CoordsLoop(_, _, _, _)
CoordsLoop(angles, currentDir, currentCoord, coords) ==
  IF angles = <<>> THEN coords
  ELSE LET dir == (currentDir + Head(angles)) % 6
           coord == HexCoordAdd(currentCoord, dir)
       IN CoordsLoop(Tail(angles), dir, coord, Append(coords, coord))

\* mutant: the step is taken before the turn
HexPatternCoordsLate(p) ==
  LET first == HexCoordAdd(ORIGIN, p.startDir)
      late == [i \in 1..Len(p.angles) |->
                 IF i = 1 THEN 0 ELSE p.angles[i - 1]]
  IN CoordsLoop(late, p.startDir, first, <<ORIGIN, first>>)

\* HexPattern.coords
HexPatternCoords(p) ==
  LET first == HexCoordAdd(ORIGIN, p.startDir)
  IN CoordsLoop(p.angles, p.startDir, first, <<ORIGIN, first>>)

\* mutant: the orientation counts
HexPatternEqualsOriented(p, other) ==
  /\ p.startDir = other.startDir
  /\ Len(p.angles) = Len(other.angles)
  /\ \A i \in 1..Len(p.angles) : p.angles[i] = other.angles[i]

\* HexPattern.equals(other)
HexPatternEquals(p, other) ==
  /\ Len(p.angles) = Len(other.angles)
  /\ \A i \in 1..Len(p.angles) : p.angles[i] = other.angles[i]

\* ---------------------------------------------------------------- equals

\* a Pattern iota as equals sees it: the HexPattern it was built from
PatternOf(pattern) ==
  [t |-> "Pattern", name |-> "", arg |-> 0, pattern |-> pattern]

RECURSIVE IotaEquals(_, _)

\* mutant: the lengths are not compared, so that a List equals every List
\* it is a prefix of
ListEqualsNoLength(this, that) ==
  /\ that.t = "List"
  /\ \A i \in 1..Len(this.vs) :
       i <= Len(that.vs) /\ IotaEquals(this.vs[i], that.vs[i])

\* List.equals(that)
ListEquals(this, that) ==
  /\ that.t = "List"
  /\ Len(this.vs) = Len(that.vs)
  /\ \A i \in 1..Len(this.vs) : IotaEquals(this.vs[i], that.vs[i])

\* Pattern.equals(that)
PatternEquals(this, that) ==
  that.t = "Pattern" /\ HexPatternEquals(this.pattern, that.pattern)

\* Double.equals(that): the numbers are integers here, and two of them are
\* less than Double.TOLERANCE apart when they are the same
DoubleEquals(this, that) ==
  that.t = "Double" /\ this.v - that.v = 0

\* this.equals(that), by the class of this; Null and Entity compare by
\* identity
IotaEquals(this, that) ==
  CASE this.t = "List" -> ListEquals(this, that)
    [] this.t = "Pattern" -> PatternEquals(this, that)
    [] this.t = "Double" -> DoubleEquals(this, that)
    [] this.t = "Boolean" ->
         that.t = "Boolean" /\ this.value = that.value
    [] OTHER -> this = that

\* The call of a method in progress: the HexPattern or the iota it is
\* called on, the methods applied so far, their argument, the string and
\* the result.
NoCall ==
  [op |-> <<>>, p |-> HexPattern(NORTH_EAST, <<>>),
   other |-> HexPattern(NORTH_EAST, <<>>), angle |-> 0, str |-> <<>>,
   out |-> Returned(HexPattern(NORTH_EAST, <<>>)), equal |-> FALSE,
   this |-> Null, that |-> Null, coords |-> <<>>,
   vec |-> [k |-> "Vector3", v |-> Vector3(0, 0, 0)],
   made |-> Vector3(0, 0, 0)]

\* The record of the latest turn of run, for the claims about one execute:
\* the iota, the VM the turn began with (before), the VM execute was called
\* on (pre), the branch execute took and the result it returned.
NoLast ==
  [op |-> "none", src |-> "none", branch |-> "none", iota |-> Null,
   before |-> START, pre |-> START, diff |-> NoChange, diffs |-> <<>>,
   heap |-> <<>>,
   resolutionType |-> "UNRESOLVED", sound |-> "NOTHING"]

NoQuote == [phase |-> "idle", base |-> <<>>, recv |-> <<>>, thoth |-> FALSE]

\* The record of the quotation in progress, for the claims about it: the
\* stack at the opening Introspection, the iotas received since, and whether
\* a ThothFrame stepped meanwhile.
QuoteAfterExecute(q, pre, iota, post) ==
  LET branch == ExecuteBranch(pre, iota)
  IN IF pre.parenCount = 0
     THEN IF post.parenCount > 0
          THEN [phase |-> "open", base |-> pre.stack, recv |-> <<>>,
                thoth |-> FALSE]
          ELSE NoQuote
     ELSE IF q.phase # "open" THEN NoQuote
     ELSE IF post.parenCount = 0
          THEN [q EXCEPT !.phase = "closed"]
          ELSE IF branch = "action" /\ iota = CONSIDERATION
               THEN q
               ELSE [q EXCEPT !.recv = Append(@, iota)]

QuoteAfterThrow(q) ==
  IF q.phase = "open" THEN q ELSE NoQuote

QuoteAfterThoth(q) ==
  IF q.phase = "open" THEN [q EXCEPT !.thoth = TRUE] ELSE NoQuote

\* The record of the frames run stepped, for the claims about a whole fold
\* and a whole HermesFrame. Of the ThothFrames over the first accumulator:
\* the stack the first step found (base), the stack each later step found
\* (left), the stack each step with a datum set (begun), and whether the step
\* without data was taken (done). Of the HermesFrame on top at entry and the
\* frames over its rest: the heads executed (heads), where in frames the
\* frame over the rest is due (depth, 0 before the first step), and whether
\* a rest is left (alive).
NoHist ==
  [base |-> <<>>, left |-> <<>>, begun |-> <<>>, done |-> FALSE,
   heads |-> <<>>, depth |-> 0, alive |-> TRUE]

HistAfterThoth(h, frame, v, post) ==
  IF frame.acc # 1 THEN h
  ELSE [h EXCEPT !.base = IF frame.hasBase THEN @ ELSE v.stack,
                 !.left = IF frame.hasBase THEN Append(@, v.stack) ELSE @,
                 !.begun = IF frame.data # <<>> THEN Append(@, post.stack)
                           ELSE @,
                 !.done = frame.data = <<>>]

\* the step is one of the HermesFrame on top at entry or of the frame over
\* its rest: it is on top where that frame is due
HistIsHead(h, v) ==
  /\ h.alive
  /\ Len(v.frames) = IF h.depth = 0 THEN Len(prog.entry) ELSE h.depth

HistAfterHermes(h, frame, v, own, post) ==
  IF ~HistIsHead(h, v) THEN h
  ELSE [h EXCEPT !.heads = Append(@, Head(frame.patterns)),
                 !.depth = Len(post.frames) - Len(own.framePush),
                 !.alive = Tail(frame.patterns) # <<>>]

InitVM ==
  /\ vm = VM(prog.stack, prog.entry, 0, <<>>, FALSE)
  /\ accs = <<>>
  /\ acts = ConstantActions
  /\ fed = 0
  /\ pc = "run"
  /\ last = NoLast
  /\ quote = NoQuote
  /\ call = NoCall
  /\ hist = NoHist

QuoteProgs ==
  {QuoteProg(xs) : xs \in SeqsUpTo(QuoteAlphabet, MaxQuote) \ {<<>>}}

ThothProgs ==
  {ThothProg(code, data, tail) :
     code \in ThothBodies, data \in SeqsUpTo(DataAlphabet, MaxData),
     tail \in ThothTails}

GivenProgs ==
  {GivenProg(xs, entry) :
     xs \in SeqsUpTo(GivenAlphabet, MaxGiven), entry \in EntryFrames}

\* the stacks below the two Lists of a fold program
FoldBases == {<<>>, <<Double(0)>>, <<Null, Double(0)>>}

\* the bodies of a fold program: none, ones that push, wrap or pop, ones
\* that change the escape state, one whose typed stack access fails
FoldBodies ==
  {<<>>, <<VACANT_REFL>>, <<SINGLES_PURIF>>,
   <<HERMES_GAMBIT, HERMES_GAMBIT>>, <<INTROSPECTION>>, <<CONSIDERATION>>,
   <<VECTOR_EXAL>>}

FoldAlphabet == {Double(1), Double(2), List(<<MINDS_REFL>>)}

FoldProgs ==
  {FoldProg(base, code, data) :
     base \in FoldBases, code \in FoldBodies,
     data \in SeqsUpTo(FoldAlphabet, MaxData)}

FoldBase(p) == SubSeq(p.stack, 1, Len(p.stack) - 2)
FoldCode(p) == p.stack[Len(p.stack) - 1].vs
FoldData(p) == p.stack[Len(p.stack)].vs

HermesProgs ==
  {HermesProg(Append(below, HermesFrame(patterns, FALSE))) :
     below \in HermesBelow, patterns \in HermesPatterns}

\* run(c) from a VM whose top HermesFrame has the constant-action pattern c
\* as its head, with or without a HermesFrame over c below it: c is
\* executed from inside a HermesFrame first and then again
AgainProgs ==
  {[HermesProg((IF below THEN <<HermesFrame(<<c>>, TRUE)>> ELSE <<>>)
                 \o <<HermesFrame(<<c>> \o rest, FALSE)>>)
      EXCEPT !.kind = "again", !.xs = <<c>>] :
     c \in {FRAME_PUSH, FRAME_POP, FRAME_SET},
     rest \in {<<>>, <<VACANT_REFL>>},
     below \in BOOLEAN}

VectorProgs == {VectorProg(data) : data \in [1..3 -> VectorAlphabet]}

\* the shapes of the list literals, p standing for the pattern and M for
\* MINDS_REFL
ListShapes ==
  {"none", "p", "[]", "[[]]", "[p]", "[p,M]", "[p,p]", "[[p]]", "[[p,M]]",
   "[[p,p]]", "[[p],M]", "[[[p]]]", "[p,[p]]", "[[p],[p]]", "[M,[[p],p]]"}

\* the arguments of Iota.patterns for a shape
ListLiteral(shape, p) ==
  LET P == LitPattern(p)
      M == LitPattern(MINDS_REFL)
  IN CASE shape = "none" -> <<>>
       [] shape = "p" -> <<P>>
       [] shape = "[]" -> <<LitList(<<>>)>>
       [] shape = "[[]]" -> <<LitList(<<LitList(<<>>)>>)>>
       [] shape = "[p]" -> <<LitList(<<P>>)>>
       [] shape = "[p,M]" -> <<LitList(<<P, M>>)>>
       [] shape = "[p,p]" -> <<LitList(<<P, P>>)>>
       [] shape = "[[p]]" -> <<LitList(<<LitList(<<P>>)>>)>>
       [] shape = "[[p,M]]" -> <<LitList(<<LitList(<<P, M>>)>>)>>
       [] shape = "[[p,p]]" -> <<LitList(<<LitList(<<P, P>>)>>)>>
       [] shape = "[[p],M]" -> <<LitList(<<LitList(<<P>>), M>>)>>
       [] shape = "[[[p]]]" ->
            <<LitList(<<LitList(<<LitList(<<P>>)>>)>>)>>
       [] shape = "[p,[p]]" -> <<LitList(<<P, LitList(<<P>>)>>)>>
       [] shape = "[[p],[p]]" ->
            <<LitList(<<LitList(<<P>>), LitList(<<P>>)>>)>>
       [] shape = "[M,[[p],p]]" ->
            <<LitList(<<M, LitList(<<LitList(<<P>>), P>>)>>)>>

ListProgs ==
  {ListProg(shape, p) :
     shape \in ListShapes,
     p \in {MINDS_REFL, INTROSPECTION, RETROSPECTION, CONSIDERATION}}

ListIotas(shape, p) == Patterns(ListLiteral(shape, p))

VectorIotas(data) == Patterns(<<LitVector(data[1], data[2], data[3])>>)

\* the iotas run is called with (for free input they are drawn turn by turn)
ProgIotas(p) ==
  CASE p.kind = "free" -> <<>>
    [] p.kind = "quote" -> QuoteIotas(p.xs)
    [] p.kind = "thoth" -> ThothIotas(p.xs, p.data, p.tail)
    [] p.kind = "given" -> p.xs
    [] p.kind = "hermes" -> p.xs
    [] p.kind = "again" -> p.xs
    [] p.kind = "fold" -> p.xs
    [] p.kind = "vector" -> VectorIotas(p.data)
    [] p.kind = "list" -> ListIotas(p.shape, p.xs[1])

\* vm.run(env, ...iotas): iotas is any sequence over Alphabet, taken one iota
\* at a time, or Iota.patterns of a literal program, or a given sequence; vm
\* is VM.START, or for a given sequence a VM that holds frames already
Init ==
  /\ prog \in {FreeProg} \cup QuoteProgs \cup ThothProgs \cup GivenProgs
              \cup VectorProgs \cup ListProgs \cup HermesProgs
              \cup FoldProgs \cup AgainProgs
  /\ InitVM
  /\ iotas = ProgIotas(prog)

\* the iotas the for loop of run may take next
NextIotas ==
  IF prog.kind = "free"
  THEN IF fed < MaxIotas THEN Alphabet ELSE {}
  ELSE IF iotas # <<>> THEN {Head(iotas)} ELSE {}

\* mutant: run returns at the first result that is a mishap
RunGoesOnUnlessMishap(result) ==
  result.resolutionType \notin {"ERRORED", "INVALID"}

\* run reads nothing but the diff of a result: its loops go on whatever
\* execute or step resolved to
RunGoesOn(result) == TRUE

\* where run is after a turn: unwound by a thrown Error, or in its loops
RunAfter(result) ==
  IF result.thrown THEN "thrown"
  ELSE IF RunGoesOn(result) THEN "run" ELSE "returned"

\* mutant: step is taken for null while frames are left
StepIsNullAlways(v) == TRUE

\* VM.step returns null: there is no top frame to evaluate
StepIsNull(v) == v.frames = <<>>

\* run, one turn of a drain loop: result = vm.step(env) is not null and
\* vm = vm.apply(result.diff)
RunStep ==
  /\ pc = "run"
  /\ ~StepIsNull(vm)
  /\ LET frame == vm.frames[Len(vm.frames)]
         nacc == Len(accs) + 1
         result == IF frame.t = "Hermes"
                   THEN HermesFrameEvaluate(frame, vm, nacc)
                   ELSE ThothFrameEvaluate(frame, vm, accs)
         heap == IF frame.t = "Thoth"
                 THEN [accs EXCEPT ![frame.acc] = ThothAcc(frame, vm, accs)]
                 ELSE accs
         post == Apply(vm, result.diff)
         pre == IF frame.t = "Hermes" /\ frame.patterns # <<>>
                THEN Apply(vm, HermesNewCont(frame)) ELSE vm
         head == IF frame.t = "Hermes" /\ frame.patterns # <<>>
                 THEN Head(frame.patterns) ELSE Null
         own == IF frame.t = "Hermes" /\ frame.patterns # <<>>
                THEN Execute(pre, head, nacc).diff ELSE NoChange
     IN /\ accs' = IF result.newAcc THEN Append(heap, <<>>) ELSE heap
        /\ acts' = IF frame.t = "Hermes"
                   THEN HermesActs(frame, vm, nacc, acts) ELSE acts
        /\ vm' = IF result.thrown THEN vm ELSE post
        /\ pc' = RunAfter(result)
        /\ last' = [op |-> IF result.thrown THEN "throw"
                           ELSE IF frame.t = "Hermes" THEN "execute"
                           ELSE "thoth",
                    src |-> "frame",
                    branch |-> IF frame.t = "Hermes" /\ frame.patterns # <<>>
                               THEN ExecuteBranch(pre, head) ELSE "none",
                    iota |-> head, before |-> vm, pre |-> pre, diff |-> own,
                    diffs |-> <<>>, heap |-> <<>>,
                    resolutionType |-> result.resolutionType,
                    sound |-> result.sound]
        /\ quote' = IF result.thrown THEN QuoteAfterThrow(quote)
                    ELSE IF frame.t = "Hermes"
                    THEN QuoteAfterExecute(quote, pre, head, post)
                    ELSE QuoteAfterThoth(quote)
        /\ hist' = IF result.thrown THEN hist
                   ELSE IF frame.t = "Hermes"
                   THEN HistAfterHermes(hist, frame, vm, own, post)
                   ELSE HistAfterThoth(hist, frame, vm, post)
  /\ UNCHANGED <<iotas, prog, fed, call>>

\* run, the body of the for loop once the frames are drained:
\* result = vm.execute(iota, env) and vm = vm.apply(result.diff)
RunExecute ==
  /\ pc = "run"
  /\ StepIsNull(vm)
  /\ \E iota \in NextIotas :
       LET result == Execute(vm, iota, Len(accs) + 1)
           post == Apply(vm, result.diff)
       IN /\ accs' = IF result.newAcc THEN Append(accs, <<>>) ELSE accs
          /\ vm' = IF result.thrown THEN vm ELSE post
          /\ pc' = RunAfter(result)
          /\ last' = [op |-> IF result.thrown THEN "throw" ELSE "execute",
                      src |-> "run", branch |-> ExecuteBranch(vm, iota),
                      iota |-> iota, before |-> vm, pre |-> vm,
                      diff |-> result.diff, diffs |-> <<>>,
                      heap |-> <<>>,
                      resolutionType |-> result.resolutionType,
                      sound |-> result.sound]
          /\ quote' = IF result.thrown THEN QuoteAfterThrow(quote)
                      ELSE QuoteAfterExecute(quote, vm, iota, post)
  /\ iotas' = IF iotas # <<>> THEN Tail(iotas) ELSE iotas
  /\ fed' = fed + 1
  /\ UNCHANGED <<acts, prog, call, hist>>

\* run, the return once the last drain loop has ended
RunReturn ==
  /\ pc = "run"
  /\ StepIsNull(vm)
  /\ prog.kind = "free" \/ iotas = <<>>
  /\ pc' = "returned"
  /\ UNCHANGED <<vm, accs, acts, iotas, prog, fed, last, quote, call, hist>>

Next == RunStep \/ RunExecute \/ RunReturn

Spec == Init /\ [][Next]_vars

\* The unwind a break makes of a fold in progress: restoreStack of the
\* topmost ThothFrame is called with the current stack and the Change it
\* returns is applied.
TopThoth(frames) ==
  LET is == {i \in 1..Len(frames) : frames[i].t = "Thoth"}
  IN IF is = {} THEN 0 ELSE CHOOSE i \in is : \A j \in is : j <= i

RunRestore ==
  /\ pc = "run"
  /\ TopThoth(vm.frames) # 0
  /\ LET frame == vm.frames[TopThoth(vm.frames)]
         diff == ThothFrameRestoreStack(frame, vm.stack, accs)
     IN /\ accs' = [accs EXCEPT
                      ![frame.acc] = ThothRestoreAcc(frame, vm.stack, accs)]
        /\ vm' = Apply(vm, diff)
        /\ last' = [NoLast EXCEPT !.op = "restore", !.src = "frame",
                      !.before = vm, !.pre = vm, !.diff = diff]
  /\ pc' = "restored"
  /\ UNCHANGED <<acts, iotas, prog, fed, quote, call, hist>>

\* The runs from VM.START over built-in patterns and values, with no Iris'
\* Gambit and no Continuation among them: free input and compiled folds
LiveProgs ==
  {FreeProg}
  \cup {ThothProg(code, data, <<>>) :
          code \in ThothBodies, data \in {<<>>, <<1, 2>>}}

InitLive ==
  /\ prog \in LiveProgs
  /\ InitVM
  /\ iotas = ProgIotas(prog)

\* run is synchronous and blocking: a turn of its loops that can be taken is
\* taken
SpecLive == InitLive /\ [][Next]_vars /\ WF_vars(Next)

\* vm.step(env) called twice on the same VM, the first result dropped and
\* the second applied. What a call leaves behind is there for the next one:
\* the accumulator of a ThothFrame, and the execute property of a
\* constant-action head, which the second call reads, wraps and composes
\* with the frame transition again. last keeps the VM and the accumulators
\* one call followed by apply gives.
RunStepTwice ==
  /\ pc = "run"
  /\ ~StepIsNull(vm)
  /\ LET frame == vm.frames[Len(vm.frames)]
         nacc == Len(accs) + 1
         first == IF frame.t = "Hermes"
                  THEN HermesFrameEvaluate(frame, vm, nacc)
                  ELSE ThothFrameEvaluate(frame, vm, accs)
         heap1 == IF frame.t = "Thoth"
                  THEN [accs EXCEPT ![frame.acc] = ThothAcc(frame, vm, accs)]
                  ELSE accs
         acts1 == IF frame.t = "Hermes"
                  THEN HermesActs(frame, vm, nacc, acts) ELSE acts
         second == IF frame.t = "Thoth"
                   THEN ThothFrameEvaluate(frame, vm, heap1)
                   ELSE IF acts1 # acts
                   THEN [first EXCEPT !.diff = HermesCompose(frame, @)]
                   ELSE first
         heap2 == IF frame.t = "Thoth"
                  THEN [heap1 EXCEPT
                          ![frame.acc] = ThothAcc(frame, vm, heap1)]
                  ELSE heap1
         fresh(heap) == IF first.newAcc THEN Append(heap, <<>>) ELSE heap
     IN /\ ~first.thrown
        /\ accs' = fresh(heap2)
        /\ acts' = IF acts1 # acts
                   THEN [acts1 EXCEPT ![Head(frame.patterns).name] =
                                       second.diff]
                   ELSE acts1
        /\ vm' = Apply(vm, second.diff)
        /\ last' = [NoLast EXCEPT !.op = "step", !.src = "frame",
                      !.before = vm, !.pre = Apply(vm, first.diff),
                      !.diff = second.diff, !.heap = fresh(heap1)]
  /\ pc' = "stepped"
  /\ UNCHANGED <<iotas, prog, fed, quote, call, hist>>

NextStep == RunStep \/ RunExecute \/ RunReturn \/ RunStepTwice

SpecStep == Init /\ [][NextStep]_vars

NextBreak == RunStep \/ RunExecute \/ RunReturn \/ RunRestore

SpecBreak == Init /\ [][NextBreak]_vars

\* ---------------------------------------------------------------- apply

\* changes VM.apply is given in one call
MaxChanges == 2

\* VM.apply called by itself, on a VM that holds a stack and frames
ApplyFrames ==
  {HermesFrame(<<VACANT_REFL>>, TRUE), HermesFrame(<<MINDS_REFL>>, FALSE)}

ApplyStacks == {<<>>, <<Double(0)>>, <<Double(0), Null>>}

ApplyVMs ==
  {VM(stack, frames, 0, <<>>, FALSE) :
     stack \in ApplyStacks, frames \in SeqsUpTo(ApplyFrames, MaxFrames)}

\* the changes to the frames: frameSet, framePop and framePush, set or not
ApplyChanges ==
  {[NoChange EXCEPT !.hasFrameSet = set, !.frameSet = IF set THEN fs ELSE <<>>,
                    !.framePop = n,
                    !.hasFramePush = push,
                    !.framePush = IF push THEN fp ELSE <<>>] :
     set \in BOOLEAN, n \in 0..MaxFrames, push \in BOOLEAN,
     fs \in {<<HermesFrame(<<MINDS_REFL>>, FALSE),
               HermesFrame(<<VACANT_REFL>>, TRUE)>>},
     fp \in {<<HermesFrame(<<HERMES_GAMBIT>>, FALSE)>>}}

\* the changes that carry stackSet, stackPop and stackPush, and frameSet and
\* framePush or neither
ApplyStackChanges ==
  {[NoChange EXCEPT !.hasStackSet = TRUE, !.stackSet = s, !.stackPop = n,
                    !.hasStackPush = TRUE, !.stackPush = p,
                    !.hasFrameSet = set, !.frameSet = IF set THEN fs ELSE <<>>,
                    !.hasFramePush = set,
                    !.framePush = IF set THEN fp ELSE <<>>] :
     s \in {<<>>, <<Null>>, <<Null, Double(1)>>,
            <<Double(1), Null, Double(2)>>},
     n \in 0..3, p \in {<<>>, <<Double(3)>>, <<Double(3), Null>>},
     set \in BOOLEAN,
     fs \in {<<>>, <<HermesFrame(<<MINDS_REFL>>, FALSE),
                       HermesFrame(<<VACANT_REFL>>, TRUE)>>},
     fp \in {<<HermesFrame(<<HERMES_GAMBIT>>, FALSE)>>}}

\* the changes of a list: one field each, of the stack, the frames and the
\* escape state
ApplyListChanges ==
  {Push(<<Null>>), [NoChange EXCEPT !.stackPop = 1],
   [NoChange EXCEPT !.hasStackSet = TRUE, !.stackSet = <<Double(1)>>],
   [NoChange EXCEPT !.hasFramePush = TRUE,
                    !.framePush = <<HermesFrame(<<HERMES_GAMBIT>>, FALSE)>>],
   [NoChange EXCEPT !.framePop = 1],
   [NoChange EXCEPT !.escapeIntro = TRUE],
   [NoChange EXCEPT !.escapeRetro = TRUE],
   [NoChange EXCEPT !.escapeConsider = TRUE],
   [NoChange EXCEPT !.hasEscapePush = TRUE, !.escapePush = Double(0)]}

InitApply ==
  /\ vm \in ApplyVMs
  /\ pc = "apply"
  /\ accs = <<>>
  /\ acts = ConstantActions
  /\ iotas = <<>>
  /\ prog = FreeProg
  /\ fed = 0
  /\ last = NoLast
  /\ quote = NoQuote
  /\ call = NoCall
  /\ hist = NoHist

\* vm.apply(change)
ApplyStep ==
  /\ pc = "apply"
  /\ \E change \in ApplyChanges :
       /\ vm' = Apply(vm, change)
       /\ last' = [NoLast EXCEPT !.op = "apply", !.before = vm, !.pre = vm,
                                 !.diff = change]
  /\ pc' = "applied"
  /\ UNCHANGED <<accs, acts, iotas, prog, fed, quote, call, hist>>

\* vm.apply(change) with a change to the stack
ApplyStackStep ==
  /\ pc = "apply"
  /\ \E change \in ApplyStackChanges :
       /\ vm' = Apply(vm, change)
       /\ last' = [NoLast EXCEPT !.op = "applyStack", !.before = vm,
                                 !.pre = vm, !.diff = change]
  /\ pc' = "applied"
  /\ UNCHANGED <<accs, acts, iotas, prog, fed, quote, call, hist>>

\* vm.apply(...diff) with a list of changes
ApplyListStep ==
  /\ pc = "apply"
  /\ \E diff \in SeqsUpTo(ApplyListChanges, MaxChanges) :
       /\ vm' = ApplyAll(vm, diff)
       /\ last' = [NoLast EXCEPT !.op = "applyList", !.before = vm,
                                 !.pre = vm, !.diffs = diff]
  /\ pc' = "applied"
  /\ UNCHANGED <<accs, acts, iotas, prog, fed, quote, call, hist>>

NextApply == ApplyStep \/ ApplyStackStep \/ ApplyListStep

SpecApply == InitApply /\ [][NextApply]_vars

\* ---------------------------------------------------------------- grid calls

\* the methods of HexPattern called by themselves
HexPatterns ==
  {HexPattern(startDir, angles) :
     startDir \in HexDir, angles \in SeqsUpTo(HexAngle, MaxAngles)}

\* the characters of an angle field: those of the six angles and another
TextChars == {"w", "e", "d", "s", "a", "q", "x"}

\* the first field of a string: a direction, nothing, part of a direction,
\* a direction and more
TextDirs ==
  {ToStringDir(startDir) : startDir \in HexDir}
  \cup {<<>>, <<"n", "o", "r", "t", "h">>, Str_east \o <<"w">>}

\* what may follow the second field: nothing, or a comma and a third field
TextRests == {<<>>, <<",">>, <<",", "w">>}

\* the strings parse is called on: one field, or two fields and the rest
Texts ==
  TextDirs
  \cup {l \o <<",">> \o r \o rest :
          l \in TextDirs, r \in SeqsUpTo(TextChars, MaxAngles),
          rest \in TextRests}

\* the patterns p is compared with: any start direction, and the angles of
\* p, those angles but the last, with one more, or with one of them changed
Others(p) ==
  {HexPattern(startDir, angles) :
     startDir \in HexDir,
     angles \in {p.angles, SubSeq(p.angles, 1, Len(p.angles) - 1)}
                \cup {Append(p.angles, a) : a \in HexAngle}
                \cup {[p.angles EXCEPT ![i] = a] :
                        i \in 1..Len(p.angles), a \in HexAngle}}

InitGrid ==
  /\ vm = START
  /\ accs = <<>>
  /\ acts = ConstantActions
  /\ iotas = <<>>
  /\ prog = FreeProg
  /\ fed = 0
  /\ last = NoLast
  /\ quote = NoQuote
  /\ hist = NoHist
  /\ \/ /\ pc = "grid"
        /\ \E p \in HexPatterns : call = [NoCall EXCEPT !.p = p]
     \/ /\ pc = "text"
        /\ \E str \in Texts : call = [NoCall EXCEPT !.str = str]

\* the pattern the next method of a chain is called on
GridTarget == IF pc = "grid" THEN call.p ELSE call.out.value

GridAfter == IF pc = "grid" THEN "once" ELSE "done"

\* p.toString()
GridToString ==
  /\ pc = "grid"
  /\ call' = [call EXCEPT !.op = <<"toString">>,
                          !.str = HexPatternToString(call.p)]
  /\ pc' = "string"
  /\ UNCHANGED <<vm, accs, acts, iotas, prog, fed, last, quote, hist>>

\* HexPattern.parse(str), of a string toString returned or of a given one
GridParse ==
  /\ pc \in {"string", "text"}
  /\ call' = [call EXCEPT !.op = Append(@, "parse"),
                          !.out = HexPatternParse(call.str)]
  /\ pc' = "done"
  /\ UNCHANGED <<vm, accs, acts, iotas, prog, fed, last, quote, hist>>

\* p.reversed(), of the pattern or of the result of the method before
GridReversed ==
  /\ pc \in {"grid", "once"}
  /\ ~call.out.thrown
  /\ call' = [call EXCEPT !.op = Append(@, "reversed"),
                          !.out = HexPatternReversed(GridTarget)]
  /\ pc' = GridAfter
  /\ UNCHANGED <<vm, accs, acts, iotas, prog, fed, last, quote, hist>>

\* p.mirrored(), of the pattern or of the result of the method before
GridMirrored ==
  /\ pc \in {"grid", "once"}
  /\ ~call.out.thrown
  /\ call' = [call EXCEPT !.op = Append(@, "mirrored"),
                          !.out = HexPatternMirrored(GridTarget)]
  /\ pc' = GridAfter
  /\ UNCHANGED <<vm, accs, acts, iotas, prog, fed, last, quote, hist>>

\* p.rotated(angle)
GridRotated ==
  /\ pc = "grid"
  /\ \E angle \in HexAngle :
       call' = [call EXCEPT !.op = <<"rotated">>, !.angle = angle,
                            !.out = HexPatternRotated(call.p, angle)]
  /\ pc' = "once"
  /\ UNCHANGED <<vm, accs, acts, iotas, prog, fed, last, quote, hist>>

\* p.equals(other) for the patterns near p, and p.rotated(angle).equals(p)
GridEquals ==
  /\ \/ /\ pc = "grid"
        /\ \E other \in Others(call.p) :
             call' = [call EXCEPT !.op = <<"equals">>, !.other = other,
                                  !.equal = HexPatternEquals(call.p, other)]
     \/ /\ pc = "once"
        /\ call.op = <<"rotated">>
        /\ call' = [call EXCEPT !.op = Append(@, "equals"),
                                !.other = call.p,
                                !.equal =
                                  HexPatternEquals(call.out.value, call.p)]
  /\ pc' = "done"
  /\ UNCHANGED <<vm, accs, acts, iotas, prog, fed, last, quote, hist>>

\* p.coords(), of the pattern or of the result of the method before
GridCoords ==
  /\ pc \in {"grid", "once"}
  /\ ~call.out.thrown
  /\ call' = [call EXCEPT !.op = Append(@, "coords"),
                          !.coords = HexPatternCoords(GridTarget)]
  /\ pc' = "done"
  /\ UNCHANGED <<vm, accs, acts, iotas, prog, fed, last, quote, hist>>

NextGrid ==
  \/ GridCoords
  \/ GridToString
  \/ GridParse
  \/ GridReversed
  \/ GridMirrored
  \/ GridRotated
  \/ GridEquals

SpecGrid == InitGrid /\ [][NextGrid]_vars

\* ---------------------------------------------------------------- equals calls

\* List.equals called by itself: the iotas that are no Lists, among them
\* Patterns of one shape and two start directions
EqualsAtoms ==
  {Null, Double(0),
   PatternOf(HexPattern(NORTH_EAST, <<5>>)),
   PatternOf(HexPattern(SOUTH_WEST, <<5>>)),
   PatternOf(HexPattern(NORTH_EAST, <<4>>))}

\* the Lists held by the Lists below
EqualsInner ==
  {List(<<>>),
   List(<<PatternOf(HexPattern(NORTH_EAST, <<5>>)), Double(0)>>),
   List(<<List(<<PatternOf(HexPattern(WEST, <<5>>))>>)>>),
   List(<<List(<<PatternOf(HexPattern(EAST, <<5>>))>>)>>)}

EqualsLists ==
  {List(vs) : vs \in SeqsUpTo(EqualsAtoms \cup EqualsInner, MaxValues)}

InitEquals ==
  /\ vm = START
  /\ accs = <<>>
  /\ acts = ConstantActions
  /\ iotas = <<>>
  /\ prog = FreeProg
  /\ fed = 0
  /\ last = NoLast
  /\ quote = NoQuote
  /\ hist = NoHist
  /\ pc = "equals"
  /\ \E this \in EqualsLists : call = [NoCall EXCEPT !.this = this]

\* the components of the vectors Vector3.from is called with
VecValues == {0 - 1, 0, 2}

\* Vector3.from(vec): vec is an instance of Vector3 (k = "Vector3"), an array
\* or an object with the properties x, y and z
Vector3From(vec) ==
  CASE vec.k = "Vector3" -> vec.v
    [] vec.k = "array" -> Vector3(vec.items[1], vec.items[2], vec.items[3])
    [] OTHER -> Vector3(vec.x, vec.y, vec.y)

\* this.equals(that) for a List this and any iota that
EqualsStep ==
  /\ pc = "equals"
  /\ \E that \in EqualsLists \cup EqualsAtoms :
       call' = [call EXCEPT !.op = <<"equals">>, !.that = that,
                            !.equal = IotaEquals(call.this, that)]
  /\ pc' = "done"
  /\ UNCHANGED <<vm, accs, acts, iotas, prog, fed, last, quote, hist>>

\* Vector3.from(vec) for an object { x, y, z }, an array [x, y, z] and a
\* Vector3
FromObjectStep ==
  /\ pc = "equals"
  /\ \E x \in VecValues, y \in VecValues, z \in VecValues :
       \E vec \in {[k |-> "object", x |-> x, y |-> y, z |-> z]} :
         call' = [call EXCEPT !.op = <<"from">>, !.vec = vec,
                              !.made = Vector3From(vec)]
  /\ pc' = "done"
  /\ UNCHANGED <<vm, accs, acts, iotas, prog, fed, last, quote, hist>>

FromArrayStep ==
  /\ pc = "equals"
  /\ \E x \in VecValues, y \in VecValues, z \in VecValues :
       \E vec \in {[k |-> "array", items |-> <<x, y, z>>]} :
         call' = [call EXCEPT !.op = <<"from">>, !.vec = vec,
                              !.made = Vector3From(vec)]
  /\ pc' = "done"
  /\ UNCHANGED <<vm, accs, acts, iotas, prog, fed, last, quote, hist>>

FromVectorStep ==
  /\ pc = "equals"
  /\ \E x \in VecValues, y \in VecValues, z \in VecValues :
       \E vec \in {[k |-> "Vector3", v |-> Vector3(x, y, z)]} :
         call' = [call EXCEPT !.op = <<"from">>, !.vec = vec,
                              !.made = Vector3From(vec)]
  /\ pc' = "done"
  /\ UNCHANGED <<vm, accs, acts, iotas, prog, fed, last, quote, hist>>

NextEquals == EqualsStep \/ FromObjectStep \/ FromArrayStep \/ FromVectorStep

SpecEquals == InitEquals /\ [][NextEquals]_vars

\* ---------------------------------------------------------------- claims

Executed == last.op = "execute"

Top(stack) == stack[Len(stack)]
Below(stack) == SubSeq(stack, 1, Len(stack) - 1)

\* [Double(0), d1, Double(0), d2, ...]: the stack each iteration of the
\* Thoth test leaves, one after the other
Interleaved(data) ==
  [i \in 1..(2 * Len(data)) |->
     IF i % 2 = 1 THEN Double(0) ELSE Double(data[i \div 2])]

IsThothTest ==
  prog.kind = "thoth" /\ prog.xs = <<HERMES_GAMBIT>> /\ prog.tail = <<>>

\* C1: run of Iota.patterns(0, [HERMES_GAMBIT], [d1..dn], THOTHS_GAMBIT) from
\* VM.START throws nothing and returns with stack = [Double(0),
\* List([Double(0), d1, ..., Double(0), dn])], parenthesized = [] and no
\* frames.
C1_ThothFold ==
  IsThothTest =>
    /\ pc # "thrown"
    /\ pc = "returned" =>
         /\ vm.stack = <<Double(0), List(Interleaved(prog.data))>>
         /\ vm.parenthesized = <<>>
         /\ vm.frames = <<>>

C1_Witness ==
  /\ IsThothTest
  /\ prog.data = <<1, 2, 3>>
  /\ pc = "returned"
  /\ vm.stack = <<Double(0), List(<<Double(0), Double(1), Double(0), Double(2),
                                   Double(0), Double(3)>>)>>

\* C2: an execute at parenCount = 0 with escapeNext set pushes the iota on
\* the stack without running its action and leaves escapeNext = false.
C2_ConsiderationQuotesOne ==
  (Executed /\ last.pre.parenCount = 0 /\ last.pre.escapeNext) =>
    /\ last.branch = "escape"
    /\ vm.stack = Append(last.pre.stack, last.iota)
    /\ vm.escapeNext = FALSE

\* C3: run of Iota.patterns([xs...]) for a flat list xs of patterns, escape
\* controls included, throws nothing and returns with stack = [List(xs)],
\* parenCount = 0, parenthesized = [], escapeNext = false and no frames.
C3_QuotedList ==
  prog.kind = "quote" =>
    /\ pc # "thrown"
    /\ pc = "returned" => vm = VM(<<List(prog.xs)>>, <<>>, 0, <<>>, FALSE)

C3_Witness ==
  /\ prog.kind = "quote"
  /\ prog.xs = <<INTROSPECTION, CONSIDERATION, RETROSPECTION>>
  /\ pc = "returned"
  /\ vm.stack = <<List(<<INTROSPECTION, CONSIDERATION, RETROSPECTION>>)>>

\* C4: after every applied change, parenCount = 0 implies that parenthesized
\* is empty.
C4_ParenthesizedEmpty ==
  vm.parenCount = 0 => vm.parenthesized = <<>>

C4_Witness ==
  /\ Executed
  /\ last.pre.parenCount = 1
  /\ Len(last.pre.parenthesized) = 2
  /\ vm.parenCount = 0
  /\ vm.parenthesized = <<>>

\* C5: parenCount is never negative, whatever Retrospections are run.
C5_ParenCountNonNegative ==
  vm.parenCount >= 0

C5_Witness ==
  /\ Executed
  /\ last.iota = RETROSPECTION
  /\ last.branch = "action"
  /\ last.pre.parenCount = 0
  /\ fed >= 2
  /\ vm.parenCount = 0

\* C6: Retrospection executed at parenCount = 0 with escapeNext = false
\* resolves ERRORED with sound MISHAP and leaves the VM as it was.
C6_StrayRetrospection ==
  (Executed /\ last.iota = RETROSPECTION
     /\ last.pre.parenCount = 0 /\ ~last.pre.escapeNext) =>
    /\ last.resolutionType = "ERRORED"
    /\ last.sound = "MISHAP"
    /\ vm = last.pre

C6_Witness ==
  /\ Executed
  /\ last.iota = RETROSPECTION
  /\ last.pre.parenCount = 0
  /\ ~last.pre.escapeNext
  /\ last.pre.stack # <<>>
  /\ last.resolutionType = "ERRORED"
  /\ vm = last.pre

\* what C7 says of the closing Retrospection, but for the stack below the List
QuoteClosedList ==
  /\ Executed
  /\ last.iota = RETROSPECTION
  /\ last.branch = "action"
  /\ vm.stack # <<>>
  /\ Top(vm.stack) = List(quote.recv)
  /\ Below(vm.stack) = last.pre.stack
  /\ vm.parenthesized = <<>>

\* C7 as stated: the Retrospection that closes a quotation opened at
\* parenCount = 0 pushes one List of the iotas received since the opening, but
\* for the executed Considerations and itself, parenthesized is then empty,
\* and the stack below the List is the stack at the opening.
C7_QuotationCollects ==
  quote.phase = "closed" =>
    /\ QuoteClosedList
    /\ Below(vm.stack) = quote.base

\* C7, amended: the same, with the stack below the List being the stack at
\* the opening provided no ThothFrame stepped while the quotation was open.
C7_QuotationCollectsNoThoth ==
  quote.phase = "closed" =>
    /\ QuoteClosedList
    /\ ~quote.thoth => Below(vm.stack) = quote.base

C7_Witness ==
  /\ quote.phase = "closed"
  /\ ~quote.thoth
  /\ quote.base = <<List(<<>>)>>
  /\ quote.recv = <<RETROSPECTION>>
  /\ last.pre.parenthesized = <<ParenthesizedIota(RETROSPECTION, TRUE)>>
  /\ vm.stack = Append(quote.base, List(quote.recv))

\* C8: an execute at parenCount > 0 with escapeNext set appends (iota,
\* escaped = true) to parenthesized, clears escapeNext, leaves parenCount,
\* stack and frames alone and resolves ESCAPED.
C8_EscapedInQuotation ==
  (Executed /\ last.pre.parenCount > 0 /\ last.pre.escapeNext) =>
    /\ vm.parenthesized =
         Append(last.pre.parenthesized, ParenthesizedIota(last.iota, TRUE))
    /\ vm.escapeNext = FALSE
    /\ vm.parenCount = last.pre.parenCount
    /\ vm.stack = last.pre.stack
    /\ vm.frames = last.pre.frames
    /\ last.resolutionType = "ESCAPED"

C8_Witness ==
  /\ Executed
  /\ last.pre.parenCount > 0
  /\ last.pre.escapeNext
  /\ last.iota = RETROSPECTION
  /\ vm.parenthesized =
       Append(last.pre.parenthesized, ParenthesizedIota(RETROSPECTION, TRUE))

C10_UnescapedValue ==
  (Executed /\ last.pre.parenCount = 0 /\ ~last.pre.escapeNext
     /\ ~HasExecute(last.iota)) =>
    /\ last.resolutionType = "INVALID"
    /\ last.sound = "MISHAP"
    /\ last.diff = NoChange
    /\ vm = last.pre

C10_Witness ==
  /\ Executed
  /\ last.pre.parenCount = 0
  /\ ~last.pre.escapeNext
  /\ last.iota = Double(0)
  /\ last.pre.stack # <<>>
  /\ last.resolutionType = "INVALID"
  /\ vm = last.pre

\* C11: run calls execute on an external iota only when no frame is left,
\* the frames the VM held at entry included, and the VM run returns holds no
\* frame.
C11_ExecuteWhenDrained ==
  /\ (last.src = "run" /\ last.op \in {"execute", "throw"}) =>
       last.before.frames = <<>>
  /\ pc = "returned" => vm.frames = <<>>

C11_Witness ==
  /\ prog.kind = "given"
  /\ Len(prog.entry) = 2
  /\ Executed
  /\ last.src = "run"
  /\ last.iota = VACANT_REFL
  /\ fed = 1
  /\ last.before.frames = <<>>
  /\ last.before.stack # <<>>

\* the turns of the for loop of run so far took the iotas it was given, each
\* once and in the given order, and run returns after the last of them
RunInOrder ==
  LET all == ProgIotas(prog)
  IN /\ fed <= Len(all)
     /\ iotas = SubSeq(all, fed + 1, Len(all))
     /\ (last.src = "run" /\ last.op \in {"execute", "throw"}) =>
          last.iota = all[fed]
     /\ pc = "returned" => fed = Len(all)

C13_HermesMishap ==
  (Executed /\ last.src = "frame"
     /\ last.resolutionType \in {"ERRORED", "INVALID"}) =>
    LET frame == Top(last.before.frames)
        rest == Tail(frame.patterns)
    IN /\ vm.stack = last.before.stack
       /\ vm.parenCount = last.before.parenCount
       /\ vm.parenthesized = last.before.parenthesized
       /\ vm.escapeNext = last.before.escapeNext
       /\ vm.frames =
            Below(last.before.frames)
              \o (IF rest = <<>> THEN <<>>
                  ELSE <<HermesFrame(rest, frame.capturesBrk)>>)

C13_Witness ==
  /\ Executed
  /\ last.src = "frame"
  /\ last.iota = RETROSPECTION
  /\ last.resolutionType = "ERRORED"
  /\ Len(last.before.frames) = 2
  /\ vm.frames = <<HermesFrame(<<MINDS_REFL>>, TRUE),
                   HermesFrame(<<Double(0), VACANT_REFL>>, FALSE)>>

\* the types the action of a pattern hands to VM.get
ActionTypes(iota) ==
  CASE iota.name = "Single's Purification" -> <<"null">>
    [] iota.name = "Hermes' Gambit" -> <<"null">>
    [] iota.name = "Thoth's Gambit" -> <<"List", "List">>
    [] iota.name = "Vector Exaltation" -> <<"Double", "Double", "Double">>
    [] OTHER -> <<>>

\* the latest execute ran an action whose typed stack access failed
GetFailed ==
  /\ last.op \in {"execute", "throw"}
  /\ last.branch = "action"
  /\ last.iota.t = "Pattern"
  /\ Get(last.pre, ActionTypes(last.iota)).thrown

\* C14: an action whose get(t1..tn) fails, for a stack that is too short or a
\* slot of another type, ends in a mishap CastResult (sound MISHAP, no
\* success) with the VM unchanged, and not in an error that unwinds step or
\* run.
C14_GetMishap ==
  GetFailed =>
    /\ pc # "thrown"
    /\ last.sound = "MISHAP"
    /\ last.resolutionType \in {"ERRORED", "INVALID"}
    /\ vm = last.pre

\* the lists of types get is called with
GetTypes ==
  {<<"null">>, <<"null", "null">>, <<"List", "List">>,
   <<"Double", "Double", "Double">>}

\* C15: on a stack whose top n slots match, get(t1..tn) returns the top n
\* iotas deepest first (result i is stack[len - n + i]), so that Vector
\* Exaltation on a stack ending in x, y, z replaces the three by
\* Vector3(x, y, z).
C15_GetOrder ==
  /\ \A tys \in GetTypes :
       LET got == Get(vm, tys)
           n == Len(tys)
           len == Len(vm.stack)
       IN ~got.thrown =>
            /\ Len(got.vals) = n
            /\ \A i \in 1..n : got.vals[i] = vm.stack[len - n + i]
  /\ (Executed /\ last.iota = VECTOR_EXAL /\ last.branch = "action") =>
       LET stack == last.pre.stack
           len == Len(stack)
       IN /\ len >= 3
          /\ vm.stack =
               Append(SubSeq(stack, 1, len - 3),
                      Vector3(stack[len - 2].v, stack[len - 1].v,
                              stack[len].v))
          /\ [vm EXCEPT !.stack = last.pre.stack] = last.pre

C15_Witness ==
  /\ prog.kind = "vector"
  /\ prog.data = <<2, MathPI, 0 - 1>>
  /\ Executed
  /\ last.iota = VECTOR_EXAL
  /\ last.pre.stack = <<Double(2), Double(MathPI), Double(0 - 1)>>
  /\ vm.stack = <<Vector3(2, MathPI, 0 - 1)>>

\* C16: executing a Continuation iota at parenCount = 0 with escapeNext =
\* false, by run or as the head of a HermesFrame, makes the frames exactly
\* the frames the Continuation captured and leaves the stack and the escape
\* state alone.
C16_ContinuationJump ==
  (Executed /\ last.iota.t = "Continuation"
     /\ last.pre.parenCount = 0 /\ ~last.pre.escapeNext) =>
    /\ vm.frames = last.iota.cont
    /\ vm.stack = last.before.stack
    /\ vm.parenCount = 0
    /\ vm.parenthesized = last.before.parenthesized
    /\ vm.escapeNext = FALSE

\* C17: apply of a change with framePop = n >= 1 to a VM that holds at least
\* n frames (after the frameSet of the change, if any) removes exactly the top
\* n frames and keeps the others in order, and the framePush of the change
\* comes on top of what is left.
C17_FramePopN ==
  last.op = "apply" =>
    LET change == last.diff
        n == change.framePop
        set == IF change.hasFrameSet THEN change.frameSet
               ELSE last.before.frames
        pushed == IF change.hasFramePush THEN change.framePush ELSE <<>>
    IN (n >= 1 /\ Len(set) >= n) =>
         vm.frames = SubSeq(set, 1, Len(set) - n) \o pushed

\* run has been called with the lowering of a list literal and has taken no
\* turn yet: iotas is what Iota.patterns returned
ListLowered(shape, p) ==
  /\ prog = ListProg(shape, p)
  /\ fed = 0
  /\ pc = "run"

\* C18: for an ordinary pattern M, Iota.patterns of no items is [], of [] is
\* [V], of [[]] is [V, S], of [[M]] is [I, M, R, S], of [[M, M]] is
\* [I, M, M, R, S] (a list whose only element is a list is that list's
\* lowering and then Single's Purification), and of [M] and [M, M] it is
\* [I, M, R] and [I, M, M, R].
C18_ListLowering ==
  LET M == MINDS_REFL
      I == INTROSPECTION
      R == RETROSPECTION
      V == VACANT_REFL
      S == SINGLES_PURIF
  IN /\ ListLowered("none", M) => iotas = <<>>
     /\ ListLowered("[]", M) => iotas = <<V>>
     /\ ListLowered("[[]]", M) => iotas = <<V, S>>
     /\ ListLowered("[p]", M) => iotas = <<I, M, R>>
     /\ ListLowered("[p,p]", M) => iotas = <<I, M, M, R>>
     /\ ListLowered("[[p]]", M) => iotas = <<I, M, R, S>>
     /\ ListLowered("[[p,p]]", M) => iotas = <<I, M, M, R, S>>

\* C19: for p one of Introspection, Retrospection and Consideration,
\* Iota.patterns of p is [p], of [p] is [C, p, S], of [p, M] is
\* [I, C, p, M, R], of [[p]] is [C, p, S, S], of [[p, M]] is
\* [I, C, p, M, R, S] and of [[p], M] is [I, C, C, C, p, S, M, R].
C19_EscapeLowering ==
  LET M == MINDS_REFL
      I == INTROSPECTION
      R == RETROSPECTION
      C == CONSIDERATION
      S == SINGLES_PURIF
  IN \A p \in {INTROSPECTION, RETROSPECTION, CONSIDERATION} :
       /\ ListLowered("p", p) => iotas = <<p>>
       /\ ListLowered("[p]", p) => iotas = <<C, p, S>>
       /\ ListLowered("[p,M]", p) => iotas = <<I, C, p, M, R>>
       /\ ListLowered("[[p]]", p) => iotas = <<C, p, S, S>>
       /\ ListLowered("[[p,M]]", p) => iotas = <<I, C, p, M, R, S>>
       /\ ListLowered("[[p],M]", p) => iotas = <<I, C, C, C, p, S, M, R>>

\* Vector3.ZERO, X, Y, Z, NEG_X, NEG_Y and NEG_Z
AxisConstants ==
  {<<0, 0, 0>>, <<1, 0, 0>>, <<0, 1, 0>>, <<0, 0, 1>>,
   <<0 - 1, 0, 0>>, <<0, 0 - 1, 0>>, <<0, 0, 0 - 1>>}

\* C20: for a Vector3 (x, y, z) that is none of the seven axis constants,
\* Iota.patterns is the lowering of x, of y and of z and then Vector
\* Exaltation, [Circle's, Arc's, Euler's Reflection, Vector Exaltation] for
\* (2 pi, pi, e), and run of it from VM.START throws nothing and returns with
\* stack = [Vector3(x, y, z)].
C20_VectorLowering ==
  (prog.kind = "vector" /\ prog.data \notin AxisConstants) =>
    LET x == prog.data[1]
        y == prog.data[2]
        z == prog.data[3]
    IN /\ (fed = 0 /\ pc = "run") =>
            /\ iotas = <<PatternsNumber(x), PatternsNumber(y),
                         PatternsNumber(z), VECTOR_EXAL>>
            /\ prog.data = <<MathPI2, MathPI, MathE>> =>
                 iotas = <<CIRCLES_REFL, ARCS_REFL, EULERS_REFL, VECTOR_EXAL>>
       /\ pc # "thrown"
       /\ pc = "returned" => vm = VM(<<Vector3(x, y, z)>>, <<>>, 0, <<>>, FALSE)

C20_Witness ==
  /\ prog.kind = "vector"
  /\ prog.data = <<MathPI2, MathPI, MathE>>
  /\ pc = "returned"
  /\ fed = 4
  /\ vm.stack = <<Vector3(MathPI2, MathPI, MathE)>>

\* C21: for every HexPattern p, of any of the six start directions and any
\* angle sequence, the empty one included, HexPattern.parse(p.toString())
\* succeeds and has the startDir and the angle sequence of p.
C21_ParseToString ==
  (pc = "done" /\ call.op = <<"toString", "parse">>) =>
    /\ ~call.out.thrown
    /\ call.out.value.startDir = call.p.startDir
    /\ call.out.value.angles = call.p.angles

C21_Witness ==
  /\ pc = "done"
  /\ call.op = <<"toString", "parse">>
  /\ call.p = HexPattern(NORTH_WEST, <<4, 5, 0>>)
  /\ call.str = Str_northwest \o <<",", "a", "q", "w">>
  /\ call.out = Returned(HexPattern(NORTH_WEST, <<4, 5, 0>>))

\* C22: for every HexPattern p, the one without angles included,
\* p.reversed().reversed() is defined and has the angle sequence of p.
C22_ReversedTwice ==
  (call.op \in {<<"reversed">>, <<"reversed", "reversed">>}) =>
    /\ ~call.out.thrown
    /\ Len(call.op) = 2 => call.out.value.angles = call.p.angles

\* C23: for every HexPattern p, one mirrored() maps startDir d to 5 - d and
\* every angle a to (5a) mod 6, and p.mirrored().mirrored() has the startDir
\* and the angle sequence of p.
C23_MirroredTwice ==
  /\ call.op = <<"mirrored">> =>
       /\ ~call.out.thrown
       /\ call.out.value.startDir = 5 - call.p.startDir
       /\ Len(call.out.value.angles) = Len(call.p.angles)
       /\ \A i \in 1..Len(call.p.angles) :
            call.out.value.angles[i] = (5 * call.p.angles[i]) % 6
  /\ call.op = <<"mirrored", "mirrored">> =>
       /\ ~call.out.thrown
       /\ call.out.value.startDir = call.p.startDir
       /\ call.out.value.angles = call.p.angles

C23_Witness ==
  /\ pc = "done"
  /\ call.op = <<"mirrored", "mirrored">>
  /\ call.p = HexPattern(SOUTH_EAST, <<1, 3, 4>>)
  /\ call.out = Returned(call.p)

\* C24: p.equals(q) is true exactly when the two angle sequences have the
\* same length and the same elements; startDir has no part in it, so that
\* p.rotated(a).equals(p) is true for every angle a.
C24_EqualsIgnoresDir ==
  /\ call.op = <<"equals">> =>
       (call.equal <=> call.p.angles = call.other.angles)
  /\ call.op = <<"rotated", "equals">> => call.equal

C24_Witness ==
  /\ pc = "done"
  /\ call.op = <<"equals">>
  /\ call.p = HexPattern(NORTH_EAST, <<5, 0, 2>>)
  /\ call.other = HexPattern(SOUTH_WEST, <<5, 0, 2>>)
  /\ call.equal

\* the strings '<dir>,<angleChars>': a direction name, one comma and
\* nothing but angle characters after it
WellFormed(str) ==
  \E startDir \in HexDir :
    LET name == ToStringDir(startDir)
    IN /\ Len(str) > Len(name)
       /\ SubSeq(str, 1, Len(name)) = name
       /\ str[Len(name) + 1] = ","
       /\ \A i \in (Len(name) + 2)..Len(str) :
            str[i] \in {"w", "e", "d", "s", "a", "q"}

\* C25: HexPattern.parse raises an error for every string that is not
\* exactly '<dir>,<angleChars>': an unknown direction, an unknown angle
\* character, a missing comma and further comma-separated fields.
C25_ParseRejects ==
  (pc = "done" /\ call.op = <<"parse">> /\ ~WellFormed(call.str)) =>
    call.out.thrown

\* an iota with every start direction in it set to NORTH_EAST
RECURSIVE Unoriented(_)
Unoriented(iota) ==
  CASE iota.t = "List" ->
         List([i \in 1..Len(iota.vs) |-> Unoriented(iota.vs[i])])
    [] iota.t = "Pattern" ->
         PatternOf(HexPattern(NORTH_EAST, iota.pattern.angles))
    [] OTHER -> iota

\* C26: a.equals(b) on a List a is true exactly when b is a List of the
\* length of a whose elements equal those of a index by index, through
\* nested Lists; Lists of different length are never equal, and Patterns of
\* one shape are equal whatever their start directions.
C26_ListEquals ==
  (pc = "done" /\ call.op = <<"equals">>) =>
    /\ call.equal <=> Unoriented(call.this) = Unoriented(call.that)
    /\ call.that.t # "List" => ~call.equal
    /\ (call.that.t = "List" /\ Len(call.this.vs) # Len(call.that.vs)) =>
         ~call.equal

C26_Witness ==
  /\ pc = "done"
  /\ call.op = <<"equals">>
  /\ call.this = List(<<List(<<List(<<PatternOf(HexPattern(WEST, <<5>>))>>)>>),
                        PatternOf(HexPattern(NORTH_EAST, <<5>>))>>)
  /\ call.that = List(<<List(<<List(<<PatternOf(HexPattern(EAST, <<5>>))>>)>>),
                        PatternOf(HexPattern(SOUTH_WEST, <<5>>))>>)
  /\ call.equal

\* C27: for a VM whose top frame is a HermesFrame and any head that can be
\* executed, applying the diff HermesFrame.evaluate returns gives the state
\* that applying the frame transition and then the head's own diff gives,
\* also when the head's diff holds frameSet, framePop or framePush.
C27_HermesRefines ==
  (Executed /\ last.src = "frame") => vm = Apply(last.pre, last.diff)

RECURSIVE Concat(_)
Concat(xss) == IF xss = <<>> THEN <<>> ELSE Head(xss) \o Concat(Tail(xss))

\* the latest step was the one of the ThothFrame of the fold that found no
\* data left
FoldEnded ==
  /\ last.op = "thoth"
  /\ Top(last.before.frames).acc = 1
  /\ Top(last.before.frames).data = <<>>

RestFrames(frame) ==
  {HermesFrame(SubSeq(frame.patterns, i, Len(frame.patterns)),
               frame.capturesBrk) : i \in 2..Len(frame.patterns)}

\* C29: a HermesFrame over p1..pk executes p1, ..., pk once each and in list
\* order; the frames executing pi pushed are above the frame over the rest
\* and are gone when p(i+1) is executed; once pk is executed no frame over a
\* rest of the patterns is left.
C29_HermesOrder ==
  prog.entry # <<>> =>
    LET frame == Top(prog.entry)
        k == Len(frame.patterns)
        i == Len(hist.heads)
    IN /\ i <= k
       /\ hist.heads = SubSeq(frame.patterns, 1, i)
       /\ (i > 0 /\ hist.alive) =>
            /\ hist.depth \in 1..Len(vm.frames)
            /\ vm.frames[hist.depth] =
                 HermesFrame(SubSeq(frame.patterns, i + 1, k),
                             frame.capturesBrk)
       /\ ~hist.alive =>
            /\ i = k
            /\ \A j \in 1..Len(vm.frames) : vm.frames[j] \notin RestFrames(frame)
       /\ pc = "returned" => ~hist.alive

C29_Witness ==
  /\ prog.kind = "hermes"
  /\ Top(prog.entry).patterns = <<MINDS_REFL, HERMES_GAMBIT, VACANT_REFL>>
  /\ Len(prog.entry) = 3
  /\ hist.heads = <<MINDS_REFL, HERMES_GAMBIT, VACANT_REFL>>
  /\ ~hist.alive
  /\ pc = "returned"
  /\ vm.stack = <<List(<<>>), Null, Caster>>

\* the changes applied one at a time, from the left to the right
RECURSIVE OneAtATime(_, _)
OneAtATime(v, diff) ==
  IF diff = <<>> THEN v ELSE OneAtATime(Apply(v, Head(diff)), Tail(diff))

\* C30: one Change with stackSet = s, stackPop = n <= |s| and stackPush = p
\* gives stack = (s without its top n elements) ++ p whatever the stack was,
\* one with frameSet = f and framePush = g gives frames = f ++ g, and a list
\* of changes gives the state that applying them one at a time from left to
\* right gives.
C30_ChangeOrder ==
  /\ last.op = "applyStack" =>
       LET change == last.diff
           s == change.stackSet
       IN /\ change.stackPop <= Len(s) =>
               vm.stack = SubSeq(s, 1, Len(s) - change.stackPop)
                            \o change.stackPush
          /\ change.hasFrameSet =>
               vm.frames = change.frameSet \o change.framePush
  /\ last.op = "applyList" => vm = OneAtATime(last.before, last.diffs)

C30_Witness ==
  /\ last.op = "applyList"
  /\ last.before.stack = <<Double(0), Null>>
  /\ last.diffs = <<[NoChange EXCEPT !.stackPop = 1], Push(<<Null>>)>>
  /\ vm.stack = <<Double(0), Null>>
  /\ Len(vm.frames) = MaxFrames
\* ---------------------------------------------------------------- C31
\* C31: applying the change of ThothFrame.restoreStack(s) sets the stack to
\* the frame's baseStack (the empty stack when no step of the fold has been
\* taken) followed by one List: the stacks the completed iterations left,
\* in order, followed by the elements of s.
C31_RestoreStack ==
  (pc = "restored" /\ last.op = "restore") =>
    LET frame == last.pre.frames[TopThoth(last.pre.frames)]
        base == IF frame.hasBase THEN frame.baseStack ELSE <<>>
    IN frame.acc = 1 =>
         vm.stack = base \o <<List(Concat(hist.left) \o last.pre.stack)>>

\* a fold unwound after one iteration at least, with a stack to hand in
C31_Witness ==
  /\ pc = "restored"
  /\ last.op = "restore"
  /\ last.pre.frames[TopThoth(last.pre.frames)].acc = 1
  /\ last.pre.frames[TopThoth(last.pre.frames)].hasBase
  /\ Concat(hist.left) # <<>>
  /\ last.pre.stack # <<>>
  /\ last.pre.frames[TopThoth(last.pre.frames)].baseStack # <<>>

\* ---------------------------------------------------------------- C32
RECURSIVE Pow2(_)
Pow2(d) == IF d = 0 THEN 1 ELSE 2 * Pow2(d - 1)

\* a literal written out with every pattern that sits inside d list
\* quotations preceded by the Considerations given for it, and every list by
\* its Introspection and Retrospection
RECURSIVE Preceded(_, _)
Preceded(list, d) ==
  IF list = <<>> THEN <<>>
  ELSE LET elem == Head(list)
           out == IF elem.k = "list"
                  THEN <<INTROSPECTION>> \o Preceded(elem.xs, d + 1)
                         \o <<RETROSPECTION>>
                  ELSE IF MustEscape(elem.p) /\ d >= 1
                       THEN Fill(Pow2(d) - 1, CONSIDERATION) \o <<elem.p>>
                       ELSE <<elem.p>>
       IN out \o Preceded(Tail(list), d)

RECURSIVE IsElement(_, _)
IsElement(list, considerations) ==
  IF list = <<>> THEN <<>>
  ELSE LET elem == Head(list)
           n == Len(PatternsElem(elem, considerations))
           out == IF elem.k = "list"
                  THEN <<FALSE>> \o IsElement(elem.xs, considerations * 2)
                         \o <<FALSE>>
                  ELSE Append(Fill(n - 1, FALSE), TRUE)
       IN out \o IsElement(Tail(list), considerations)

\* the programs that are Iota.patterns of one list literal
OneList ==
  /\ prog.kind = "list"
  /\ prog.shape \notin {"none", "p"}

\* C33: running Iota.patterns of one nested list literal of patterns from
\* VM.START ends with parenCount = 0, escapeNext = false, parenthesized = []
\* and exactly one List on the stack, and no escape-control pattern that is
\* an element of the literal is executed on the way.
C33_LiteralRuns ==
  OneList =>
    /\ pc # "thrown"
    /\ pc = "returned" =>
         /\ iotas = <<>>
         /\ vm.parenCount = 0
         /\ ~vm.escapeNext
         /\ vm.parenthesized = <<>>
         /\ Len(vm.stack) = 1
         /\ vm.stack[1].t = "List"
    /\ (Executed /\ last.branch = "action" /\ MustEscape(last.iota)) =>
         ~IsElement(ListLiteral(prog.shape, prog.xs[1]), 1)[fed]

\* the run of [[[Consideration]]] has returned
C33_Witness ==
  /\ OneList
  /\ prog.shape = "[[[p]]]"
  /\ prog.xs[1] = CONSIDERATION
  /\ pc = "returned"
  /\ Len(vm.stack) = 1
  /\ fed = 14

\* ---------------------------------------------------------------- C34
\* C34: step is a pure function of the VM value: two calls of vm.step(env)
\* on the same VM return results whose diffs give the same successor, and a
\* call of step changes nothing a later evaluation of the same frame or of a
\* frame that follows it can observe, also for a ThothFrame whose baseStack
\* is set.
C34_StepPure ==
  (pc = "stepped" /\ last.op = "step") =>
    /\ vm = last.pre
    /\ accs = last.heap

\* ---------------------------------------------------------------- C35
\* C35: a pattern whose action is a constant Change, executed from inside a
\* HermesFrame, keeps its action: whenever it is executed, by run or by a
\* frame, its diff is the Change it was constructed with, with no framePop
\* or framePush left over from an earlier HermesFrame.
C35_ConstantKept ==
  (Executed /\ last.branch = "action" /\ IsConstant(last.iota)) =>
    last.diff = ConstantActions[last.iota.name]

\* ---------------------------------------------------------------- C36
\* C36: in every VM state run reaches, every HermesFrame on the frame stack
\* holds at least one iota, so that HermesFrame.evaluate has a head to
\* execute and no step throws for want of one; also after Hermes' Gambit has
\* popped an empty List and after Thoth's Gambit was given an empty code
\* list.
C36_HermesHasHead ==
  /\ \A i \in 1..Len(vm.frames) :
       vm.frames[i].t = "Hermes" => vm.frames[i].patterns # <<>>
  /\ ~(last.op = "throw" /\ last.src = "frame" /\ last.branch = "none")

\* ---------------------------------------------------------------- C37
\* C37: run from VM.START over a finite sequence of built-in patterns and
\* values without Iris' Gambit and Continuations terminates: every drain
\* loop of step reaches a state with an empty frame stack, and run ends.
C37_RunTerminates ==
  /\ (pc = "run" /\ vm.frames # <<>>) ~> (vm.frames = <<>>)
  /\ <>(pc # "run")

\* ---------------------------------------------------------------- C38
\* C38: for every HexPattern p with an angle at least, p.reversed() has
\* startDir = (startDir + sum of the angles + 3) mod 6 and the angles (5a)
\* mod 6 in reversed order, and p.reversed().coords() is p.coords() taken
\* backwards and moved so that it starts at the origin.
C38_ReversedCoords ==
  (call.op = <<"reversed", "coords">> /\ call.p.angles # <<>>) =>
    LET c == HexPatternCoords(call.p)
        n == Len(c)
        k == Len(call.p.angles)
    IN /\ call.out.value.startDir =
            (call.p.startDir + Sum(call.p.angles) + 3) % 6
       /\ call.out.value.angles =
            [i \in 1..k |-> (5 * call.p.angles[k + 1 - i]) % 6]
       /\ call.coords =
            [i \in 1..n |-> HexCoord(c[n + 1 - i].q - c[n].q,
                                     c[n + 1 - i].r - c[n].r)]

C38_Witness ==
  /\ pc = "done"
  /\ call.op = <<"reversed", "coords">>
  /\ call.p = HexPattern(EAST, <<1, 5, 2>>)
  /\ call.out.value = HexPattern(NORTH_EAST, <<4, 1, 5>>)
  /\ call.coords[1] = ORIGIN
  /\ Len(call.coords) = 5

\* ---------------------------------------------------------------- C39
\* the unit steps for NE, E, SE, SW, W, NW
UnitStep(dir) ==
  CASE dir = NORTH_EAST -> <<1, 0 - 1>>
    [] dir = EAST -> <<1, 0>>
    [] dir = SOUTH_EAST -> <<0, 1>>
    [] dir = SOUTH_WEST -> <<0 - 1, 1>>
    [] dir = WEST -> <<0 - 1, 0>>
    [] dir = NORTH_WEST -> <<0, 0 - 1>>

\* the direction after the first i angles, each turn being
\* (currentDir + angle) mod 6
RECURSIVE DirAfter(_, _)
DirAfter(p, i) ==
  IF i = 0 THEN p.startDir ELSE (DirAfter(p, i - 1) + p.angles[i]) % 6

\* C39: p.coords() starts with the origin, has |angles| + 2 elements, its
\* second element is the origin plus the unit step of startDir, and each
\* later element is the one before plus the unit step of the current
\* direction, which is turned by the angle before the step.
C39_Coords ==
  call.op = <<"coords">> =>
    LET c == call.coords
        k == Len(call.p.angles)
    IN /\ Len(c) = k + 2
       /\ c[1] = HexCoord(0, 0)
       /\ \A i \in 0..k :
            LET step == UnitStep(DirAfter(call.p, i))
            IN c[i + 2] =
                 HexCoord(c[i + 1].q + step[1], c[i + 1].r + step[2])

C39_Witness ==
  /\ pc = "done"
  /\ call.op = <<"coords">>
  /\ call.p = HexPattern(SOUTH_WEST, <<2, 2, 5>>)
  /\ call.coords =
       <<HexCoord(0, 0), HexCoord(0 - 1, 1), HexCoord(0 - 1, 0),
         HexCoord(0, 0), HexCoord(1, 0 - 1)>>

\* ---------------------------------------------------------------- C40
\* the three components of what Vector3.from was called with
VecGiven(vec) ==
  CASE vec.k = "Vector3" -> <<vec.v.x, vec.v.y, vec.v.z>>
    [] vec.k = "array" -> vec.items
    [] OTHER -> <<vec.x, vec.y, vec.z>>

\* C40: Vector3.from keeps the three components for an object { x, y, z },
\* an array [x, y, z] and a Vector3: the result has the x, the y and the z
\* of what it was given.
C40_FromKeeps ==
  call.op = <<"from">> =>
    /\ call.made.t = "Vector3"
    /\ <<call.made.x, call.made.y, call.made.z>> = VecGiven(call.vec)

====
